---- MODULE Spec2Model ----
(***************************************************************************)
(* A model of the multi-tenant file storage service: the tenant            *)
(* configuration registry, the provider factory, the provider cache of     *)
(* MultiTenantStorageService, its routing operations, and the Azure Blob   *)
(* and AWS S3 adapters with the backend calls they issue.                  *)
(*                                                                         *)
(* JavaScript runs every handler to its next `await` without interruption, *)
(* so one action is the code between two awaits: the backend call that     *)
(* was awaited takes effect, and the continuation runs to the next await   *)
(* (or to the end of the handler).  Several requests are in flight at      *)
(* once; their steps interleave.                                           *)
(*                                                                         *)
(* Names that are parsed or concatenated into keys and URLs (containers,   *)
(* prefixes, file names, URLs) are sequences of tokens, where every        *)
(* separator character ("/", ".") is a token of its own.  Tenant ids,      *)
(* environments and error messages are strings.                            *)
(***************************************************************************)
EXTENDS Integers, Sequences, FiniteSets, TLC

VARIABLES
    providerCache,  \* MultiTenantStorageService.providerCache: cache key -> adapter
    instances,      \* every adapter object the factory has constructed, in order
    req,            \* the requests in flight: one record per request slot
    azContainers,   \* Azure: <<account, container>> -> "private" | "public"
    azBlobs,        \* Azure: <<account, container, blob>> -> stored metadata
    s3Objects,      \* S3: <<bucket, key>> -> [metadata, acl]
    s3BucketAcl,    \* S3: bucket -> "private" | "public" (its ACL)
    now,            \* the wall clock, in minutes
    deleted         \* objects deleted successfully and not written again

vars == <<providerCache, instances, req, azContainers, azBlobs, s3Objects,
          s3BucketAcl, now, deleted>>

-----------------------------------------------------------------------------
(* Bounds *)

MaxInstances == 4
MaxClock == 1
MaxNameLen == 3

Requests == {"r1", "r2"}

-----------------------------------------------------------------------------
(* JavaScript values *)

Undefined == "undefined"
NullName == <<"null">>

Falsy(name) == name = NullName \/ name = <<>>

RECURSIVE Str(_)
Str(toks) == IF toks = <<>> THEN "" ELSE Head(toks) \o Str(Tail(toks))

\* a metadata value: its JavaScript type and its string form
StrVal(s) == [t |-> "string", s |-> s]
NumVal(n) == [t |-> "number", s |-> ToString(n)]
BoolVal(b) == [t |-> "boolean", s |-> IF b THEN "true" ELSE "false"]
String(v) == [t |-> "string", s |-> v.s]

EmptyMeta == [k \in {} |-> StrVal("")]

\* { ...a, ...b }
Spread(a, b) ==
    [k \in (DOMAIN a) \cup (DOMAIN b) |-> IF k \in DOMAIN b THEN b[k] ELSE a[k]]

Obj1(k, v) == [x \in {k} |-> v]

toISOString(t) == "T" \o ToString(t)

-----------------------------------------------------------------------------
(* config/platform-config.js *)

NoConn == <<>>

Conn(name, key) ==
    << [k |-> "DefaultEndpointsProtocol", v |-> "https"],
       [k |-> "AccountName", v |-> name],
       [k |-> "AccountKey", v |-> key] >>

AzureEnv(conn, name, key) ==
    [provider |-> "azure", connectionString |-> conn, accountName |-> name,
     accountKey |-> key, accessKeyId |-> Undefined, secretAccessKey |-> Undefined,
     region |-> Undefined, bucketName |-> <<Undefined>>]

S3Env(id, secret, bucket) ==
    [provider |-> "s3", connectionString |-> NoConn, accountName |-> Undefined,
     accountKey |-> Undefined, accessKeyId |-> id, secretAccessKey |-> secret,
     region |-> "ap-south-1", bucketName |-> bucket]

\* process.env: the deployment sets every variable the registry reads, except
\* the BROKERAGE_UAT_* ones
platforms ==
    [onedigital |->
        [name |-> "OneDigital",
         environments |->
            [uat |-> AzureEnv(Conn("oduat", "k1"), "oduat", "k1"),
             preprod |-> AzureEnv(NoConn, "odpre", "k2"),
             prod |-> S3Env("AK1", "SK1", <<"odprod">>)]],
     invictus |->
        [name |-> "Invictus",
         environments |->
            [uat |-> S3Env("AK2", "SK2", <<Undefined>>),
             preprod |-> S3Env("AK3", "SK3", <<Undefined>>),
             prod |-> S3Env("AK4", "SK4", <<Undefined>>)]],
     brokerage |->
        [name |-> "Brokerage",
         environments |->
            [uat |-> AzureEnv(NoConn, Undefined, Undefined),
             preprod |-> AzureEnv(Conn("brpre", "k5"), "brpre", "k5"),
             prod |-> AzureEnv(Conn("brprod", "k6"), "brprod", "k6")]]]

Thrown(msg) == [ok |-> FALSE, message |-> msg]

getPlatformConfig(platformId, environment) ==
    IF platformId \notin DOMAIN platforms
    THEN Thrown("Platform '" \o platformId \o "' not found")
    ELSE IF environment \notin DOMAIN platforms[platformId].environments
    THEN Thrown("Environment '" \o environment \o "' not found for platform '"
                \o platformId \o "'")
    ELSE [ok |-> TRUE,
          config |-> [platformName |-> platforms[platformId].name]
                     @@ platforms[platformId].environments[environment]]

-----------------------------------------------------------------------------
(* The adapters' constructors and providers/storage-provider-factory.js *)

ConnField(conn, k) ==
    LET hits == {i \in DOMAIN conn : conn[i].k = k}
    IN  IF hits = {} THEN Undefined
        ELSE conn[CHOOSE i \in hits : \A j \in hits : i <= j].v

\* new AzureStorageProvider(config)
AzureStorageProvider(config) ==
    IF config.connectionString = NoConn
       /\ (config.accountName = Undefined \/ config.accountKey = Undefined)
    THEN Thrown("Azure connection string or account credentials required")
    ELSE IF config.connectionString # NoConn
    THEN IF ConnField(config.connectionString, "AccountName") = Undefined
         THEN Thrown("Could not extract AccountName from connection string")
         ELSE IF ConnField(config.connectionString, "AccountKey") = Undefined
         THEN Thrown("Could not extract AccountKey from connection string")
         ELSE [ok |-> TRUE,
               adapter |-> [kind |-> "azure", config |-> config, region |-> Undefined,
                            accountName |-> ConnField(config.connectionString,
                                                      "AccountName")]]
    ELSE [ok |-> TRUE,
          adapter |-> [kind |-> "azure", config |-> config, region |-> Undefined,
                       accountName |-> config.accountName]]

\* new AWSS3StorageProvider(config)
AWSS3StorageProvider(config) ==
    IF config.accessKeyId = Undefined \/ config.secretAccessKey = Undefined
       \/ config.region = Undefined
    THEN Thrown("AWS credentials and region are required")
    ELSE [ok |-> TRUE,
          adapter |-> [kind |-> "s3", config |-> config, region |-> config.region,
                       accountName |-> Undefined]]

toLowerCase(s) ==
    CASE s = "AZURE" -> "azure"
      [] s = "Azure" -> "azure"
      [] s = "aZuRe" -> "azure"
      [] s = "AWS" -> "aws"
      [] s = "Aws" -> "aws"
      [] s = "S3" -> "s3"
      [] s = "GCS" -> "gcs"
      [] s = "ONEDIGITAL" -> "onedigital"
      [] s = "OneDigital" -> "onedigital"
      [] OTHER -> s

\* a createProvider that compares the kind as it was given
createProviderExact(providerType, config) ==
    CASE providerType = "azure" -> AzureStorageProvider(config)
      [] providerType = "aws" -> AWSS3StorageProvider(config)
      [] providerType = "s3" -> AWSS3StorageProvider(config)
      [] OTHER -> Thrown("Unsupported storage provider: " \o providerType)

createProvider(providerType, config) ==
    CASE toLowerCase(providerType) = "azure" -> AzureStorageProvider(config)
      [] toLowerCase(providerType) = "aws" -> AWSS3StorageProvider(config)
      [] toLowerCase(providerType) = "s3" -> AWSS3StorageProvider(config)
      [] OTHER -> Thrown("Unsupported storage provider: " \o providerType)

getProviderName(adapter) == adapter.kind

-----------------------------------------------------------------------------
(* MultiTenantStorageService.getStorageProvider *)

\* a cache keyed by the tenant alone
CacheKeyTenantOnly(platformId, environment) == platformId

\* a cache key that leaves the tenant out
CacheKeyEnvironmentOnly(platformId, environment) == environment

CacheKey(platformId, environment) == platformId \o "-" \o environment

\* the calls getStorageProvider makes, as the request's record of them
Lookup(platformId, environment) ==
    [call |-> "getPlatformConfig", platformId |-> platformId,
     environment |-> environment]

Construct(providerType) ==
    [call |-> "createProvider", platformId |-> providerType, environment |-> ""]

\* a cache-miss path that remembers a failed resolution under its key
ResolveMissNegative(cache, heap, platformId, environment) ==
    LET cacheKey == CacheKey(platformId, environment)
        cfg == getPlatformConfig(platformId, environment)
        made == IF cfg.ok THEN createProvider(cfg.config.provider, cfg.config)
                ELSE cfg
    IN  IF ~made.ok
        THEN [ok |-> FALSE, message |-> made.message, provider |-> 0,
              cache |-> (cacheKey :> 0) @@ cache, heap |-> heap,
              calls |-> IF cfg.ok
                        THEN <<Lookup(platformId, environment),
                               Construct(cfg.config.provider)>>
                        ELSE <<Lookup(platformId, environment)>>]
        ELSE [ok |-> TRUE, message |-> "", provider |-> Len(heap) + 1,
              cache |-> (cacheKey :> (Len(heap) + 1)) @@ cache,
              heap |-> Append(heap, made.adapter
                                    @@ [madeFor |-> <<platformId, environment>>]),
              calls |-> <<Lookup(platformId, environment),
                          Construct(cfg.config.provider)>>]

\* The cache-miss path of getStorageProvider in the state (cache, heap): the
\* adapter returned (provider: its index in heap; 0 when the call threw), the
\* cache and the heap after the call, and the registry and factory calls made.
\* The heap remembers for which call each adapter was constructed (madeFor).
ResolveMiss(cache, heap, platformId, environment) ==
    LET cacheKey == CacheKey(platformId, environment)
        cfg == getPlatformConfig(platformId, environment)
        made == IF cfg.ok THEN createProvider(cfg.config.provider, cfg.config)
                ELSE cfg
    IN  IF ~cfg.ok
        THEN [ok |-> FALSE, message |-> cfg.message, provider |-> 0,
              cache |-> cache, heap |-> heap,
              calls |-> <<Lookup(platformId, environment)>>]
        ELSE IF ~made.ok
        THEN [ok |-> FALSE, message |-> made.message, provider |-> 0,
              cache |-> cache, heap |-> heap,
              calls |-> <<Lookup(platformId, environment),
                          Construct(cfg.config.provider)>>]
        ELSE [ok |-> TRUE, message |-> "", provider |-> Len(heap) + 1,
              cache |-> (cacheKey :> (Len(heap) + 1)) @@ cache,
              heap |-> Append(heap, made.adapter
                                    @@ [madeFor |-> <<platformId, environment>>]),
              calls |-> <<Lookup(platformId, environment),
                          Construct(cfg.config.provider)>>]

\* a getStorageProvider that never consults the cache
getStorageProviderUncached(cache, heap, platformId, environment) ==
    ResolveMiss(cache, heap, platformId, environment)

\* a getStorageProvider that reads the registry again on a cache hit
getStorageProviderRelookup(cache, heap, platformId, environment) ==
    LET cacheKey == CacheKey(platformId, environment)
    IN  IF cacheKey \in DOMAIN cache
        THEN [ok |-> TRUE, message |-> "", provider |-> cache[cacheKey],
              cache |-> cache, heap |-> heap,
              calls |-> <<Lookup(platformId, environment)>>]
        ELSE ResolveMiss(cache, heap, platformId, environment)

getStorageProvider(cache, heap, platformId, environment) ==
    LET cacheKey == CacheKey(platformId, environment)
    IN  IF cacheKey \in DOMAIN cache
        THEN [ok |-> TRUE, message |-> "", provider |-> cache[cacheKey],
              cache |-> cache, heap |-> heap, calls |-> <<>>]
        ELSE ResolveMiss(cache, heap, platformId, environment)

-----------------------------------------------------------------------------
(* URLs *)

IndexOf(seq, x) ==
    LET hits == {i \in DOMAIN seq : seq[i] = x}
    IN  IF hits = {} THEN 0 ELSE CHOOSE i \in hits : \A j \in hits : i <= j

\* seq.split(sep): the segments between the separator tokens
RECURSIVE Split(_, _)
Split(seq, sep) ==
    LET i == IndexOf(seq, sep)
    IN  IF i = 0 THEN <<seq>>
        ELSE <<SubSeq(seq, 1, i - 1)>> \o Split(SubSeq(seq, i + 1, Len(seq)), sep)

\* segs.join(sep)
RECURSIVE Join(_, _)
Join(segs, sep) ==
    IF segs = <<>> THEN <<>>
    ELSE IF Len(segs) = 1 THEN segs[1]
    ELSE segs[1] \o <<sep>> \o Join(Tail(segs), sep)

NonEmpty(segs) == SelectSeq(segs, LAMBDA part : Len(part) > 0)

\* the percent-encoding a URL's path gets
PathEncode(path) == [i \in DOMAIN path |-> IF path[i] = " " THEN "%20" ELSE path[i]]

\* new URL(url): hostname and pathname, or a TypeError
URL(url) ==
    IF url = <<>> \/ Head(url) # "https://" \/ Len(url) < 2 \/ url[2] = "/"
    THEN [ok |-> FALSE, hostname |-> <<>>, pathname |-> <<>>]
    ELSE LET rest == Tail(url)
             i == IndexOf(rest, "/")
         IN  [ok |-> TRUE,
              hostname |-> IF i = 0 THEN rest ELSE SubSeq(rest, 1, i - 1),
              pathname |-> IF i = 0 THEN <<"/">>
                           ELSE PathEncode(SubSeq(rest, i, Len(rest)))]

\* Array index that is out of range: undefined
At(segs, i) == IF i \in DOMAIN segs THEN segs[i] ELSE <<Undefined>>

\* AzureStorageProvider.parseUrl
AzureParseUrl(url) ==
    LET urlObj == URL(url)
        pathParts == NonEmpty(Split(urlObj.pathname, "/"))
    IN  IF ~urlObj.ok
        THEN [ok |-> FALSE, message |-> "Failed to parse Azure URL: Invalid URL",
              accountName |-> <<>>, containerName |-> <<>>, blobName |-> <<>>]
        ELSE [ok |-> TRUE, message |-> "",
              accountName |-> Split(urlObj.hostname, ".")[1],
              containerName |-> At(pathParts, 1),
              blobName |-> Join(SubSeq(pathParts, 2, Len(pathParts)), "/")]

\* hostname.includes('.s3.')
IncludesDotS3Dot(hostname) ==
    \E i \in DOMAIN hostname :
        /\ i + 2 \in DOMAIN hostname
        /\ hostname[i] = "." /\ hostname[i + 1] = "s3" /\ hostname[i + 2] = "."

\* AWSS3StorageProvider.parseUrl
S3ParseUrl(url) ==
    LET urlObj == URL(url)
        pathParts == NonEmpty(Split(urlObj.pathname, "/"))
    IN  IF ~urlObj.ok
        THEN [ok |-> FALSE, message |-> "Failed to parse S3 URL: Invalid URL",
              bucketName |-> <<>>, key |-> <<>>]
        ELSE IF IncludesDotS3Dot(urlObj.hostname)
        THEN [ok |-> TRUE, message |-> "",
              bucketName |-> Split(urlObj.hostname, ".")[1],
              key |-> Tail(urlObj.pathname)]
        ELSE [ok |-> TRUE, message |-> "",
              bucketName |-> At(pathParts, 1),
              key |-> Join(SubSeq(pathParts, 2, Len(pathParts)), "/")]

\* the permanent URL uploadFile returns (S3)
S3Url(bucketNameValue, region, key) ==
    <<"https://">> \o bucketNameValue
        \o <<".", "s3", ".", region, ".", "amazonaws", ".", "com", "/">> \o key

\* blockBlobClient.url: the SDK appends the container and the escaped blob path
\* to the account's endpoint
AzureBlobUrl(accountName, containerName, blobPath) ==
    <<"https://", accountName, ".", "blob", ".", "core", ".", "windows", ".",
      "net", "/">> \o containerName \o <<"/">> \o PathEncode(blobPath)

\* name.split('/').pop()
LastSegment(name) == LET parts == Split(name, "/") IN parts[Len(parts)]

-----------------------------------------------------------------------------
(* utils/sanitizeFileName.js and utils/sanitizeBucketName.js: names as        *)
(* sequences of characters                                                    *)

Whitespace == {" ", "\t"}

LowerChar(c) == IF c = "A" THEN "a" ELSE toLowerCase(c)

\* [a-z0-9!._*'()\-]
AllowedChar(c) == c \in {"a", "1", "!", ".", "_", "*", "'", "(", ")", "-"}

LowerCase(s) == [i \in DOMAIN s |-> LowerChar(s[i])]

\* s without its leading characters in set
RECURSIVE StripLeading(_, _)
StripLeading(s, set) ==
    IF s # <<>> /\ Head(s) \in set THEN StripLeading(Tail(s), set) ELSE s

\* s without its trailing characters in set
RECURSIVE StripTrailing(_, _)
StripTrailing(s, set) ==
    IF s # <<>> /\ s[Len(s)] \in set
    THEN StripTrailing(SubSeq(s, 1, Len(s) - 1), set) ELSE s

\* s.replace(/[set]+/g, c): every run of characters in set becomes one c
RECURSIVE ReplaceRuns(_, _, _)
ReplaceRuns(s, set, c) ==
    IF s = <<>> THEN <<>>
    ELSE IF Head(s) \in set THEN <<c>> \o ReplaceRuns(StripLeading(s, set), set, c)
    ELSE <<Head(s)>> \o ReplaceRuns(Tail(s), set, c)

\* s.replace(/-+\./g, "."): a run of hyphens that a dot follows is dropped
RECURSIVE DropHyphensBeforeDots(_)
DropHyphensBeforeDots(s) ==
    IF s = <<>> THEN <<>>
    ELSE IF Head(s) = "-"
    THEN LET rest == StripLeading(s, {"-"})
         IN  IF rest # <<>> /\ Head(rest) = "."
             THEN DropHyphensBeforeDots(rest)
             ELSE SubSeq(s, 1, Len(s) - Len(rest)) \o DropHyphensBeforeDots(rest)
    ELSE <<Head(s)>> \o DropHyphensBeforeDots(Tail(s))

\* String.prototype.trim
Trim(s) == StripTrailing(StripLeading(s, Whitespace), Whitespace)

sanitizeFileName(fileName) ==
    LET lowered == LowerCase(fileName)
        hyphened == ReplaceRuns(lowered, Whitespace, "-")
        valid == SelectSeq(hyphened, AllowedChar)
        single == ReplaceRuns(valid, {"-"}, "-")
        inner == StripTrailing(StripLeading(single, {"-"}), {"-"})
    IN  DropHyphensBeforeDots(inner)

sanitizeBucketName(bucketName) ==
    StripTrailing(LowerCase(Trim(bucketName)), {"-"})

-----------------------------------------------------------------------------
(* Outcomes of calls, and the request record *)

None == [status |-> "none", message |-> "", value |-> FALSE]
Returned(v) == [status |-> "returned", message |-> "", value |-> v]
Threw(msg) == [status |-> "threw", message |-> msg, value |-> FALSE]

\* what a backend answers when a call fails for a reason other than absence
BackendError == "Access denied"

NoExpiry == <<>>

NoConfig == [k \in {} |-> Undefined]

\* res.status(status).json({ success, error })
Response(status, error) == [status |-> status, error |-> error]
NoResponse == Response(0, "")

Idle ==
    [op |-> "idle", pc |-> "idle", platformId |-> "", environment |-> "",
     provider |-> 0,
     \* the HTTP route that runs the request, the service calls it has made
     \* and its response
     route |-> "none", log |-> <<>>, http |-> NoResponse,
     \* the arguments
     providerType |-> "", config |-> NoConfig,
     bucketName |-> <<>>, prefix |-> <<>>, fileName |-> <<>>, access |-> "",
     metadata |-> EmptyMeta, url |-> <<>>, key |-> <<>>, expiryMinutes |-> NoExpiry,
     \* the adapter's locals
     tBucket |-> <<>>, tKey |-> <<>>, outMeta |-> EmptyMeta,
     containerExists |-> FALSE, isPublic |-> FALSE, isBucketPublic |-> FALSE,
     \* what the request has done and seen so far
     created |-> FALSE, policySet |-> FALSE, wrote |-> FALSE, signed |-> FALSE,
     calls |-> <<>>, hit |-> FALSE, resolveError |-> "",
     checked |-> "no", exists |-> "no", accessSeen |-> "no", bucketSeen |-> "no",
     adapter |-> None, result |-> None]

-----------------------------------------------------------------------------
(* MultiTenantStorageService: what each routing operation makes of the       *)
(* adapter's outcome                                                         *)

\* a prefix that does not name the operation
PrefixGeneric(op) == "Operation failed: "

Prefix(op) ==
    CASE op = "uploadFile" -> "Upload failed: "
      [] op = "generateDownloadUrl" -> "Download URL generation failed: "
      [] op = "deleteFile" -> "Delete failed: "
      [] op = "deleteFileByBucketKey" -> "Delete by bucket key failed: "
      [] op = "getFileMetadata" -> "Get metadata failed: "
      [] OTHER -> ""

\* a catch block that wraps and rethrows for every operation
RouteCatchAll(op, message) == Threw(Prefix(op) \o message)

\* the catch block of a routing operation
RouteCatch(op, message) ==
    IF op = "fileExists" THEN Returned(FALSE)
    ELSE Threw(Prefix(op) \o message)

RouteOutcome(q, out) ==
    IF out.status = "threw" THEN RouteCatch(q.op, out.message)
    ELSE IF q.op = "uploadFile"
    THEN Returned([fileUrl |-> out.value, bucketName |-> q.bucketName,
                   prefix |-> q.prefix, fileName |-> q.fileName,
                   access |-> q.access, isPublic |-> (q.access = "public")])
    ELSE out

\* the adapter's promise settles and the routing operation ends
Done(q, out) ==
    [q EXCEPT !.pc = "done", !.adapter = out, !.result = RouteOutcome(q, out)]

\* uploadFile: the metadata handed to the adapter
EnrichedMetadata(q, adapter) ==
    Spread([platformId |-> StrVal(q.platformId),
            environment |-> StrVal(q.environment),
            provider |-> StrVal(getProviderName(adapter))],
           q.metadata)

-----------------------------------------------------------------------------
(* The adapters: each method up to its first backend call *)

AdapterLookup(platformId, environment) ==
    [call |-> "adapter.getPlatformConfig", platformId |-> platformId,
     environment |-> environment]

\* AzureStorageProvider.uploadFile
AzureUploadFile(q) == [q EXCEPT !.tBucket = q.bucketName, !.pc = "ContainerExists"]

\* AWSS3StorageProvider.uploadFile, its metadata argument being meta
S3UploadFile(q, meta) ==
    LET platformConfig == getPlatformConfig(meta["platformId"].s, meta["environment"].s)
        prefixValue == IF ~Falsy(q.prefix) THEN q.bucketName \o <<"/">> \o q.prefix
                       ELSE q.bucketName
    IN  IF ~platformConfig.ok
        THEN Done(q, Threw("S3 upload failed: " \o platformConfig.message))
        ELSE [q EXCEPT !.tBucket = platformConfig.config.bucketName,
                       !.tKey = IF ~Falsy(prefixValue)
                                THEN prefixValue \o <<"/">> \o q.fileName
                                ELSE q.fileName,
                       !.pc = "HeadBucket"]

\* the url-addressed methods: parseUrl, then the first backend call
AzureByUrl(q, failPrefix, pc) ==
    LET p == AzureParseUrl(q.url)
    IN  IF ~p.ok
        THEN IF q.op = "fileExists" THEN Done(q, Returned(FALSE))
             ELSE Done(q, Threw(failPrefix \o p.message))
        ELSE [q EXCEPT !.tBucket = p.containerName, !.tKey = p.blobName, !.pc = pc]

S3ByUrl(q, failPrefix, pc) ==
    LET p == S3ParseUrl(q.url)
    IN  IF ~p.ok
        THEN Done(q, Threw(failPrefix \o p.message))
        ELSE [q EXCEPT !.tBucket = p.bucketName, !.tKey = p.key, !.pc = pc]

\* AzureStorageProvider.deleteFileByBucketKey: the SDK's getBlockBlobClient
\* escapes the blob name, and throws a TypeError on null
AzureDeleteFileByBucketKey(q) ==
    IF q.key = NullName
    THEN Done(q, Threw("Azure delete by bucket key failed: "
                       \o "Cannot read properties of null (reading 'split')"))
    ELSE [q EXCEPT !.tBucket = q.bucketName, !.tKey = q.key, !.pc = "BlobDelete"]

\* a deleteFileByBucketKey that takes the key as the whole object key
S3DeleteFileByBucketKeyBare(q) ==
    LET platformConfig == getPlatformConfig(q.platformId, q.environment)
    IN  IF ~platformConfig.ok
        THEN Done(q, Threw("S3 delete by bucket key failed: " \o platformConfig.message))
        ELSE [q EXCEPT !.tBucket = platformConfig.config.bucketName,
                       !.tKey = q.key,
                       !.pc = "DeleteObject"]

\* AWSS3StorageProvider.deleteFileByBucketKey
S3DeleteFileByBucketKey(q) ==
    LET platformConfig == getPlatformConfig(q.platformId, q.environment)
    IN  IF ~platformConfig.ok
        THEN Done(q, Threw("S3 delete by bucket key failed: " \o platformConfig.message))
        ELSE [q EXCEPT !.tBucket = platformConfig.config.bucketName,
                       !.tKey = IF ~Falsy(q.key) THEN q.bucketName \o <<"/">> \o q.key
                                ELSE q.bucketName,
                       !.pc = "DeleteObject"]

\* provider.<op>(...) as the routing operation of q calls it
AdapterCall(q, adapter) ==
    IF adapter.kind = "azure"
    THEN CASE q.op = "uploadFile" -> AzureUploadFile(q)
           [] q.op = "generateDownloadUrl" ->
                AzureByUrl(q, "Azure SAS generation failed: ", "BlobExists")
           [] q.op = "deleteFile" -> AzureByUrl(q, "Azure delete failed: ", "BlobDelete")
           [] q.op = "deleteFileByBucketKey" -> AzureDeleteFileByBucketKey(q)
           [] q.op = "getFileMetadata" ->
                AzureByUrl(q, "Azure metadata fetch failed: ", "BlobGetProperties")
           [] q.op = "fileExists" -> AzureByUrl(q, "", "BlobExists")
    ELSE CASE q.op = "uploadFile" -> S3UploadFile(q, EnrichedMetadata(q, adapter))
           [] q.op = "generateDownloadUrl" ->
                S3ByUrl(q, "S3 download URL generation failed: ", "HeadObject")
           [] q.op = "deleteFile" -> S3ByUrl(q, "S3 delete failed: ", "DeleteObject")
           [] q.op = "deleteFileByBucketKey" -> S3DeleteFileByBucketKey(q)
           [] q.op = "getFileMetadata" ->
                S3ByUrl(q, "S3 metadata fetch failed: ", "HeadObject")
           [] q.op = "fileExists" -> S3ByUrl(q, "", "HeadObject")

AdapterLookups(q, adapter) ==
    IF adapter.kind = "s3" /\ q.op = "uploadFile"
    THEN <<AdapterLookup(EnrichedMetadata(q, adapter)["platformId"].s,
                         EnrichedMetadata(q, adapter)["environment"].s)>>
    ELSE IF adapter.kind = "s3" /\ q.op = "deleteFileByBucketKey"
    THEN <<AdapterLookup(q.platformId, q.environment)>>
    ELSE <<>>

-----------------------------------------------------------------------------
(* The routing operations: the synchronous part of each, which resolves the  *)
(* adapter and calls it                                                      *)

stores == <<azContainers, azBlobs, s3Objects, s3BucketAcl, deleted>>

\* the request as getStorageProvider leaves it: what the call did is kept
\* with the request
Resolved(q, res, cache) ==
    [q EXCEPT !.provider = res.provider, !.calls = res.calls,
              !.hit = CacheKey(q.platformId, q.environment) \in DOMAIN cache,
              !.resolveError = res.message]

\* try { provider = this.getStorageProvider(...); ... provider.<op>(...) }
\* storageService.<op>(...): the adapter is resolved and called
ServiceCall(r, q) ==
    /\ LET res == getStorageProvider(providerCache, instances,
                                     q.platformId, q.environment)
           got == Resolved(q, res, providerCache)
       IN  /\ Len(res.heap) <= MaxInstances
           /\ providerCache' = res.cache
           /\ instances' = res.heap
           /\ req' = [req EXCEPT ![r] =
                IF ~res.ok
                THEN [got EXCEPT !.pc = "done",
                                 !.result = RouteCatch(q.op, res.message)]
                ELSE LET a == res.heap[res.provider]
                     IN  AdapterCall([got EXCEPT
                                        !.calls = res.calls \o AdapterLookups(q, a)],
                                     a)]
    /\ UNCHANGED <<stores, now>>

Route(r, q) ==
    /\ req[r].pc = "idle"
    /\ ServiceCall(r, q)

\* getProviderInfo(platformId, environment): synchronous, and not wrapped
getProviderInfo(r, in) ==
    /\ req[r].pc = "idle"
    /\ \E p \in in.pairs :
        LET q == [Idle EXCEPT !.op = "getProviderInfo", !.platformId = p[1],
                              !.environment = p[2]]
            res == getStorageProvider(providerCache, instances, p[1], p[2])
            got == Resolved(q, res, providerCache)
        IN  /\ Len(res.heap) <= MaxInstances
            /\ providerCache' = res.cache
            /\ instances' = res.heap
            /\ req' = [req EXCEPT ![r] =
                  IF ~res.ok
                  THEN [got EXCEPT !.pc = "done", !.result = Threw(res.message)]
                  ELSE [got EXCEPT !.pc = "done",
                           !.result = Returned(
                               [name |-> getProviderName(res.heap[res.provider]),
                                platformId |-> p[1], environment |-> p[2]])]]
    /\ UNCHANGED <<stores, now>>

uploadFile(r, in) ==
    \E p \in in.pairs, b \in in.buckets, pre \in in.prefixes, f \in in.fileNames,
       a \in in.access, m \in in.metadata :
        Route(r, [Idle EXCEPT !.op = "uploadFile", !.platformId = p[1],
                              !.environment = p[2], !.bucketName = b, !.prefix = pre,
                              !.fileName = f, !.access = a, !.metadata = m])

generateDownloadUrl(r, in) ==
    \E p \in in.pairs, u \in in.urls, x \in in.expiry :
        Route(r, [Idle EXCEPT !.op = "generateDownloadUrl", !.platformId = p[1],
                              !.environment = p[2], !.url = u, !.expiryMinutes = x])

deleteFile(r, in) ==
    \E p \in in.pairs, u \in in.urls :
        Route(r, [Idle EXCEPT !.op = "deleteFile", !.platformId = p[1],
                              !.environment = p[2], !.url = u])

deleteFileByBucketKey(r, in) ==
    \E p \in in.pairs, b \in in.buckets, k \in in.keys :
        Route(r, [Idle EXCEPT !.op = "deleteFileByBucketKey", !.platformId = p[1],
                              !.environment = p[2], !.bucketName = b, !.key = k])

getFileMetadata(r, in) ==
    \E p \in in.pairs, u \in in.urls :
        Route(r, [Idle EXCEPT !.op = "getFileMetadata", !.platformId = p[1],
                              !.environment = p[2], !.url = u])

fileExists(r, in) ==
    \E p \in in.pairs, u \in in.urls :
        Route(r, [Idle EXCEPT !.op = "fileExists", !.platformId = p[1],
                              !.environment = p[2], !.url = u])

\* the caller takes the result; the slot is free for the next request
Return(r) ==
    /\ req[r].pc = "done"
    /\ req[r].route = "none"
    /\ req' = [req EXCEPT ![r] = Idle]
    /\ UNCHANGED <<providerCache, instances, stores, now>>

-----------------------------------------------------------------------------
(* The adapters' continuations *)

SkewMinutes == 5
DefaultExpiryMinutes == 60

\* buckets provisioned in the AWS account the deployment uses
S3Buckets == {<<"odprod">>, <<"other">>}

AzObject(a, q) == <<a.accountName, q.tBucket, q.tKey>>
AzContainer(a, q) == <<a.accountName, q.tBucket>>
S3Object(q) == <<q.tBucket, q.tKey>>

AzObjectId(a, q) == <<"azure", a.accountName, q.tBucket, q.tKey>>
S3ObjectId(q) == <<"s3", "", q.tBucket, q.tKey>>

\* options.expiryMinutes || 60
ExpiryMinutes(x) == IF x = NoExpiry \/ x[1] = 0 THEN DefaultExpiryMinutes ELSE x[1]

\* AzureStorageProvider.isContainerPublic, on the answer of getProperties
isContainerPublic(answered, access) == answered /\ access = "public"

\* a fileExists whose catch block answers true
AzureFileExistsOptimistic(answered, present) == IF answered THEN present ELSE TRUE

\* AWSS3StorageProvider.isObjectPublic and isBucketPublic, on the answer of
\* GetObjectAcl / GetBucketAcl: acl is "public" when a grant gives AllUsers READ
\* or FULL_CONTROL
isObjectPublic(answered, acl) == answered /\ acl = "public-read"

isBucketPublic(answered, acl) == answered /\ acl = "public"

\* AzureStorageProvider.fileExists, on the answer of blockBlobClient.exists
AzureFileExists(answered, present) == IF answered THEN present ELSE FALSE

\* a fileExists that answers false for every error of HeadObject
S3FileExistsClosed(head) ==
    CASE head = "ok" -> Returned(TRUE)
      [] OTHER -> Returned(FALSE)

\* AWSS3StorageProvider.fileExists, on the answer of HeadObject
S3FileExists(head) ==
    CASE head = "ok" -> Returned(TRUE)
      [] head = "NotFound" -> Returned(FALSE)
      [] OTHER -> Threw(BackendError)

\* AzureStorageProvider.uploadFile: the blob path and the metadata of the upload
AzureUploadMetadata(meta, t) ==
    Spread([uploadedAt |-> StrVal(toISOString(t)), provider |-> StrVal("azure")],
           meta)

AzureIssueUpload(q, a, t) ==
    [q EXCEPT !.tKey = IF ~Falsy(q.prefix) THEN q.prefix \o <<"/">> \o q.fileName
                       ELSE q.fileName,
              !.outMeta = AzureUploadMetadata(EnrichedMetadata(q, a), t),
              !.pc = "BlobUpload"]

\* AzureStorageProvider.uploadFile after containerClient.exists()
AzureAfterContainerExists(q, containerExists) ==
    [q EXCEPT !.containerExists = containerExists,
              !.pc = IF ~containerExists THEN "ContainerCreate"
                     ELSE "ContainerGetProperties"]

\* AzureStorageProvider.uploadFile after isContainerPublic()
AzureCheckAccess(q, a, isPublic, t) ==
    LET containerAccess == IF isPublic THEN "public" ELSE "private"
    IN  IF containerAccess # q.access
        THEN Done(q, Threw("Azure upload failed: Container " \o Str(q.bucketName)
                           \o " access mismatch: currently " \o containerAccess
                           \o ", requested " \o q.access))
        ELSE AzureIssueUpload(q, a, t)

\* AWSS3StorageProvider.uploadFile: the metadata of the object
S3UploadMetadata(meta, access, t) ==
    Spread([k \in DOMAIN meta |-> String(meta[k])],
           [uploadedAt |-> StrVal(toISOString(t)), provider |-> StrVal("s3"),
            access |-> StrVal(access)])

PublicDownload(q) ==
    [downloadUrl |-> q.url, isPublic |-> TRUE, requiresSAS |-> FALSE,
     expiresIn |-> <<>>, expiresAt |-> <<>>, fileName |-> LastSegment(q.tKey),
     startsOn |-> <<>>]

\* a SAS branch that reports the skewed window to the caller
AzureSignedDownloadSkewed(q, t) ==
    [downloadUrl |-> q.url \o <<"?", "sas">>, isPublic |-> FALSE,
     requiresSAS |-> TRUE,
     expiresIn |-> <<(ExpiryMinutes(q.expiryMinutes) + SkewMinutes) * 60>>,
     expiresAt |-> <<t + ExpiryMinutes(q.expiryMinutes)>>,
     fileName |-> LastSegment(q.tKey),
     startsOn |-> <<t - SkewMinutes>>]

\* AzureStorageProvider.generateDownloadUrl: the SAS branch
AzureSignedDownload(q, t) ==
    [downloadUrl |-> q.url \o <<"?", "sas">>, isPublic |-> FALSE,
     requiresSAS |-> TRUE,
     expiresIn |-> <<ExpiryMinutes(q.expiryMinutes) * 60>>,
     expiresAt |-> <<t + ExpiryMinutes(q.expiryMinutes)>>,
     fileName |-> LastSegment(q.tKey),
     startsOn |-> <<t - SkewMinutes>>]

\* AWSS3StorageProvider.generateDownloadUrl: the presigned branch
S3SignedDownload(q, a, t) ==
    [downloadUrl |-> S3Url(q.tBucket, a.region, q.tKey) \o <<"?", "X-Amz-Signature">>,
     isPublic |-> FALSE, requiresSAS |-> TRUE,
     expiresIn |-> <<ExpiryMinutes(q.expiryMinutes) * 60>>,
     expiresAt |-> <<t + ExpiryMinutes(q.expiryMinutes)>>,
     fileName |-> LastSegment(q.tKey),
     startsOn |-> <<>>]

\* a generateDownloadUrl that goes on whatever fileExists() answered
AzureAfterFileExistsUngated(q, exists) == [q EXCEPT !.pc = "ContainerGetProperties"]

\* generateDownloadUrl after fileExists()
AzureAfterFileExists(q, exists) ==
    IF ~exists THEN Done(q, Threw("Azure SAS generation failed: File not found"))
    ELSE [q EXCEPT !.pc = "ContainerGetProperties"]

S3AfterFileExists(q, exists) ==
    IF exists.status = "threw"
    THEN Done(q, Threw("S3 download URL generation failed: " \o exists.message))
    ELSE IF ~exists.value
    THEN Done(q, Threw("S3 download URL generation failed: File not found"))
    ELSE [q EXCEPT !.pc = "GetObjectAcl"]

DeletePrefix(q, kind) ==
    IF q.op = "deleteFile" THEN kind \o " delete failed: "
    ELSE kind \o " delete by bucket key failed: "

-----------------------------------------------------------------------------
(* The backend calls: each takes effect, and the handler that awaited it     *)
(* runs on to its next await                                                 *)

Step(r, q) ==
    /\ req' = [req EXCEPT ![r] = q]
    /\ UNCHANGED <<providerCache, instances, now>>

\* containerClient.exists()
ContainerExists(r) ==
    /\ req[r].pc = "ContainerExists"
    /\ LET q == req[r]
           a == instances[q.provider]
       IN  \E answered \in BOOLEAN :
             Step(r, IF answered
                     THEN AzureAfterContainerExists(
                              q, AzContainer(a, q) \in DOMAIN azContainers)
                     ELSE Done(q, Threw("Azure upload failed: " \o BackendError)))
    /\ UNCHANGED stores

\* containerClient.create()
ContainerCreate(r) ==
    /\ req[r].pc = "ContainerCreate"
    /\ LET q == req[r]
           a == instances[q.provider]
           c == AzContainer(a, q)
       IN  \/ /\ c \notin DOMAIN azContainers
              /\ azContainers' = (c :> "private") @@ azContainers
              /\ Step(r, IF q.access = "public"
                         THEN [q EXCEPT !.created = TRUE, !.pc = "SetAccessPolicy"]
                         ELSE AzureIssueUpload([q EXCEPT !.created = TRUE], a, now))
           \/ /\ c \in DOMAIN azContainers
              /\ UNCHANGED azContainers
              /\ Step(r, Done(q, Threw("Azure upload failed: "
                                       \o "The specified container already exists.")))
           \/ /\ UNCHANGED azContainers
              /\ Step(r, Done(q, Threw("Azure upload failed: " \o BackendError)))
    /\ UNCHANGED <<azBlobs, s3Objects, s3BucketAcl, deleted>>

\* containerClient.setAccessPolicy('blob')
SetAccessPolicy(r) ==
    /\ req[r].pc = "SetAccessPolicy"
    /\ LET q == req[r]
           a == instances[q.provider]
           c == AzContainer(a, q)
       IN  \/ /\ azContainers' = [azContainers EXCEPT ![c] = "public"]
              /\ Step(r, AzureIssueUpload([q EXCEPT !.policySet = TRUE], a, now))
           \/ /\ UNCHANGED azContainers
              /\ Step(r, Done(q, Threw("Azure upload failed: " \o BackendError)))
    /\ UNCHANGED <<azBlobs, s3Objects, s3BucketAcl, deleted>>

\* containerClient.getProperties(), awaited by isContainerPublic
ContainerGetProperties(r) ==
    /\ req[r].pc = "ContainerGetProperties"
    /\ LET q == req[r]
           a == instances[q.provider]
           c == AzContainer(a, q)
           access == IF c \in DOMAIN azContainers THEN azContainers[c] ELSE "none"
       IN  \E answered \in BOOLEAN :
             LET isPublic == isContainerPublic(answered /\ access # "none", access)
                 seen == [q EXCEPT !.accessSeen = access, !.isPublic = isPublic]
             IN  IF q.op = "uploadFile"
                 THEN Step(r, AzureCheckAccess(seen, a, isPublic, now))
                 ELSE IF isPublic
                 THEN Step(r, Done(seen, Returned(PublicDownload(seen))))
                 ELSE \/ Step(r, Done([seen EXCEPT !.signed = TRUE],
                                      Returned(AzureSignedDownload(seen, now))))
                      \/ Step(r, Done([seen EXCEPT !.signed = TRUE],
                                      Threw("Azure SAS generation failed: "
                                            \o "SAS generation failed")))
    /\ UNCHANGED stores

\* The Azure SDK takes metadata as a map of strings.  Handed a value of another
\* type, a build of the SDK either refuses the call or lets the value go out
\* in its header form.
NonStrings(meta) == {k \in DOMAIN meta : meta[k].t # "string"}

MetadataTypeError(k, v) ==
    "metadata." \o k \o " with value \"" \o v.s \o "\" must be of type string."

HeaderForm(meta) == [k \in DOMAIN meta |-> [t |-> "string", s |-> meta[k].s]]

\* blockBlobClient.upload(...)
BlobUpload(r) ==
    /\ req[r].pc = "BlobUpload"
    /\ LET q == req[r]
           a == instances[q.provider]
       IN  \/ /\ AzContainer(a, q) \in DOMAIN azContainers
              /\ azBlobs' = (AzObject(a, q) :> HeaderForm(q.outMeta)) @@ azBlobs
              /\ deleted' = deleted \ {AzObjectId(a, q)}
              /\ Step(r, Done([q EXCEPT !.wrote = TRUE],
                              Returned(AzureBlobUrl(a.accountName, q.tBucket, q.tKey))))
           \/ /\ UNCHANGED <<azBlobs, deleted>>
              /\ \E k \in NonStrings(q.outMeta) :
                    Step(r, Done(q, Threw("Azure upload failed: "
                                          \o MetadataTypeError(k, q.outMeta[k]))))
           \/ /\ UNCHANGED <<azBlobs, deleted>>
              /\ Step(r, Done(q, Threw("Azure upload failed: " \o BackendError)))
    /\ UNCHANGED <<azContainers, s3Objects, s3BucketAcl>>

\* blockBlobClient.exists(), awaited by fileExists
BlobExists(r) ==
    /\ req[r].pc = "BlobExists"
    /\ LET q == req[r]
           a == instances[q.provider]
           present == AzObject(a, q) \in DOMAIN azBlobs
       IN  \E answered \in BOOLEAN :
             LET exists == AzureFileExists(answered, present)
                 seen == [q EXCEPT
                            !.checked = IF AzObjectId(a, q) \in deleted THEN "deleted"
                                        ELSE IF present THEN "present" ELSE "absent",
                            !.exists = IF exists THEN "true" ELSE "false"]
             IN  IF q.op = "fileExists"
                 THEN Step(r, Done(seen, Returned(exists)))
                 ELSE Step(r, AzureAfterFileExists(seen, exists))
    /\ UNCHANGED stores

\* blockBlobClient.delete()
BlobDelete(r) ==
    /\ req[r].pc = "BlobDelete"
    /\ LET q == req[r]
           a == instances[q.provider]
       IN  \/ /\ AzObject(a, q) \in DOMAIN azBlobs
              /\ azBlobs' = [k \in (DOMAIN azBlobs) \ {AzObject(a, q)} |-> azBlobs[k]]
              /\ deleted' = deleted \cup {AzObjectId(a, q)}
              /\ Step(r, Done(q, Returned(TRUE)))
           \/ /\ AzObject(a, q) \notin DOMAIN azBlobs
              /\ UNCHANGED <<azBlobs, deleted>>
              /\ Step(r, Done(q, Threw(DeletePrefix(q, "Azure")
                                       \o "The specified blob does not exist.")))
           \/ /\ UNCHANGED <<azBlobs, deleted>>
              /\ Step(r, Done(q, Threw(DeletePrefix(q, "Azure") \o BackendError)))
    /\ UNCHANGED <<azContainers, s3Objects, s3BucketAcl>>

\* blockBlobClient.getProperties()
BlobGetProperties(r) ==
    /\ req[r].pc = "BlobGetProperties"
    /\ LET q == req[r]
           a == instances[q.provider]
       IN  \/ /\ AzObject(a, q) \in DOMAIN azBlobs
              /\ Step(r, Done(q, Returned([metadata |-> azBlobs[AzObject(a, q)],
                                           provider |-> "azure"])))
           \/ /\ AzObject(a, q) \notin DOMAIN azBlobs
              /\ Step(r, Done(q, Threw("Azure metadata fetch failed: "
                                       \o "The specified blob does not exist.")))
           \/ Step(r, Done(q, Threw("Azure metadata fetch failed: " \o BackendError)))
    /\ UNCHANGED stores

\* an ensureBucketExists that lets the upload go on whatever HeadBucket answers
HeadBucketUnchecked(r) ==
    /\ req[r].pc = "HeadBucket"
    /\ LET q == req[r]
           a == instances[q.provider]
       IN  Step(r, [q EXCEPT
                 !.outMeta = S3UploadMetadata(EnrichedMetadata(q, a), q.access, now),
                 !.pc = "PutObject"])
    /\ UNCHANGED stores

\* HeadBucketCommand, awaited by ensureBucketExists
HeadBucket(r) ==
    /\ req[r].pc = "HeadBucket"
    /\ LET q == req[r]
           a == instances[q.provider]
       IN  \/ /\ q.tBucket \in S3Buckets
              /\ Step(r, [q EXCEPT
                    !.outMeta = S3UploadMetadata(EnrichedMetadata(q, a), q.access, now),
                    !.pc = "PutObject"])
           \/ Step(r, Done(q, Threw("S3 upload failed: Bucket " \o Str(q.tBucket)
                              \o " does not exist.Please Create the bucket first.")))
    /\ UNCHANGED stores

\* PutObjectCommand
PutObject(r) ==
    /\ req[r].pc = "PutObject"
    /\ LET q == req[r]
           a == instances[q.provider]
       IN  \/ /\ s3Objects' = (S3Object(q) :>
                                 [metadata |-> q.outMeta,
                                  acl |-> IF q.access = "public" THEN "public-read"
                                          ELSE "private"]) @@ s3Objects
              /\ deleted' = deleted \ {S3ObjectId(q)}
              /\ Step(r, Done([q EXCEPT !.wrote = TRUE],
                              Returned(S3Url(q.tBucket, a.region, q.tKey))))
           \/ /\ UNCHANGED <<s3Objects, deleted>>
              /\ Step(r, Done(q, Threw("S3 upload failed: " \o BackendError)))
    /\ UNCHANGED <<azContainers, azBlobs, s3BucketAcl>>

\* HeadObjectCommand
HeadObject(r) ==
    /\ req[r].pc = "HeadObject"
    /\ LET q == req[r]
           present == S3Object(q) \in DOMAIN s3Objects
       IN  \E head \in {IF present THEN "ok" ELSE "NotFound", "error"} :
             LET exists == S3FileExists(head)
                 seen == [q EXCEPT
                            !.checked = IF S3ObjectId(q) \in deleted THEN "deleted"
                                        ELSE IF present THEN "present" ELSE "absent",
                            !.exists = IF exists.status = "threw" THEN "threw"
                                       ELSE IF exists.value THEN "true" ELSE "false"]
             IN  CASE q.op = "fileExists" -> Step(r, Done(seen, exists))
                   [] q.op = "generateDownloadUrl" ->
                        Step(r, S3AfterFileExists(seen, exists))
                   [] q.op = "getFileMetadata" ->
                        Step(r, Done(q,
                            IF head = "ok"
                            THEN Returned([metadata |-> s3Objects[S3Object(q)].metadata,
                                           provider |-> "s3"])
                            ELSE IF head = "NotFound"
                            THEN Threw("S3 metadata fetch failed: NotFound")
                            ELSE Threw("S3 metadata fetch failed: " \o BackendError)))
    /\ UNCHANGED stores

\* GetObjectAclCommand, awaited by isObjectPublic
GetObjectAcl(r) ==
    /\ req[r].pc = "GetObjectAcl"
    /\ LET q == req[r]
           present == S3Object(q) \in DOMAIN s3Objects
           acl == IF present THEN s3Objects[S3Object(q)].acl ELSE "none"
       IN  \E answered \in BOOLEAN :
             Step(r, [q EXCEPT
                        !.isPublic = isObjectPublic(answered, acl),
                        !.accessSeen = acl,
                        !.pc = "GetBucketAcl"])
    /\ UNCHANGED stores

\* GetBucketAclCommand, awaited by isBucketPublic; its answer is not used
GetBucketAcl(r) ==
    /\ req[r].pc = "GetBucketAcl"
    /\ LET q == req[r]
           acl == IF q.tBucket \in S3Buckets THEN s3BucketAcl[q.tBucket] ELSE "none"
       IN  \E answered \in BOOLEAN :
             LET seen == [q EXCEPT !.isBucketPublic = isBucketPublic(answered, acl),
                                   !.bucketSeen = acl]
             IN  Step(r, IF seen.isPublic THEN Done(seen, Returned(PublicDownload(seen)))
                         ELSE [seen EXCEPT !.pc = "getSignedUrl"])
    /\ UNCHANGED stores

\* getSignedUrl(s3Client, GetObjectCommand, { expiresIn })
GetSignedUrl(r) ==
    /\ req[r].pc = "getSignedUrl"
    /\ LET q == req[r]
           a == instances[q.provider]
       IN  \/ Step(r, Done([q EXCEPT !.signed = TRUE],
                           Returned(S3SignedDownload(q, a, now))))
           \/ Step(r, Done([q EXCEPT !.signed = TRUE],
                           Threw("S3 download URL generation failed: "
                                 \o "signing failed")))
    /\ UNCHANGED stores

\* DeleteObjectCommand
DeleteObject(r) ==
    /\ req[r].pc = "DeleteObject"
    /\ LET q == req[r]
       IN  \/ /\ q.tBucket \in S3Buckets
              /\ s3Objects' = [k \in (DOMAIN s3Objects) \ {S3Object(q)} |-> s3Objects[k]]
              /\ deleted' = IF S3Object(q) \in DOMAIN s3Objects
                            THEN deleted \cup {S3ObjectId(q)} ELSE deleted
              /\ Step(r, Done(q, Returned(TRUE)))
           \/ /\ q.tBucket \notin S3Buckets
              /\ UNCHANGED <<s3Objects, deleted>>
              /\ Step(r, Done(q, Threw(DeletePrefix(q, "S3")
                                       \o "The specified bucket does not exist")))
           \/ /\ UNCHANGED <<s3Objects, deleted>>
              /\ Step(r, Done(q, Threw(DeletePrefix(q, "S3") \o BackendError)))
    /\ UNCHANGED <<azContainers, azBlobs, s3BucketAcl>>

\* time passes
Tick ==
    /\ now < MaxClock
    /\ now' = now + 1
    /\ UNCHANGED <<providerCache, instances, req, stores>>

-----------------------------------------------------------------------------
(* The service under load: the requests callers send.  A specification       *)
(* names the requests it sends (in) and the operations they may be.          *)

EmptyFn == [k \in {} |-> 0]

CallerStamps == [uploadedAt |-> StrVal("caller"), provider |-> StrVal("caller")]

Counted == [count |-> NumVal(42), draft |-> BoolVal(TRUE), owner |-> StrVal("ann")]

AzureDocsF == AzureBlobUrl("oduat", <<"docs">>, <<"f">>)
S3DocsF == S3Url(<<"odprod">>, "ap-south-1", <<"docs", "/", "f">>)

DocsPrivate == <<"oduat", <<"docs">>>> :> "private"
DocsPublic == <<"oduat", <<"docs">>>> :> "public"

BucketsPrivate == [b \in S3Buckets |-> "private"]
BucketsPublic == [b \in S3Buckets |-> "public"]

InitWith(in) ==
    /\ providerCache = EmptyFn
    /\ instances = <<>>
    /\ req = [r \in Requests |-> Idle]
    /\ azContainers \in in.containers
    /\ azBlobs = EmptyFn
    /\ s3Objects = EmptyFn
    /\ s3BucketAcl \in in.bucketAcls
    /\ now = 0
    /\ deleted = {}

\* every routing operation, one request at a time
Inputs ==
    [requests |-> {"r1"},
     pairs |-> {<<"onedigital", "uat">>, <<"onedigital", "prod">>, <<"nosuch", "uat">>},
     buckets |-> {<<"docs">>},
     prefixes |-> {NullName},
     fileNames |-> {<<"f">>},
     access |-> {"public", "private"},
     metadata |-> {EmptyMeta},
     urls |-> {AzureDocsF, S3DocsF},
     keys |-> {<<"f">>, NullName, <<>>},
     expiry |-> {NoExpiry},
     containers |-> {EmptyFn, DocsPrivate, DocsPublic},
     bucketAcls |-> {BucketsPrivate}]

Init == InitWith(Inputs)

Next ==
    \E r \in Inputs.requests :
        \/ getProviderInfo(r, Inputs)
        \/ uploadFile(r, Inputs)
        \/ generateDownloadUrl(r, Inputs)
        \/ deleteFile(r, Inputs)
        \/ deleteFileByBucketKey(r, Inputs)
        \/ getFileMetadata(r, Inputs)
        \/ fileExists(r, Inputs)
        \/ ContainerExists(r)
        \/ ContainerCreate(r)
        \/ SetAccessPolicy(r)
        \/ ContainerGetProperties(r)
        \/ BlobUpload(r)
        \/ BlobExists(r)
        \/ BlobDelete(r)
        \/ BlobGetProperties(r)
        \/ HeadBucket(r)
        \/ PutObject(r)
        \/ HeadObject(r)
        \/ GetObjectAcl(r)
        \/ GetBucketAcl(r)
        \/ GetSignedUrl(r)
        \/ DeleteObject(r)
        \/ Return(r)

Spec == Init /\ [][Next]_vars

\* resolving adapters: concurrent requests of many tenants and environments
CacheInputs ==
    [Inputs EXCEPT
        !.requests = Requests,
        !.pairs = {<<"onedigital", "uat">>, <<"onedigital", "prod">>,
                   <<"invictus", "uat">>, <<"brokerage", "uat">>,
                   <<"onedigital", "dev">>, <<"nosuch", "uat">>},
        !.urls = {AzureDocsF},
        !.containers = {EmptyFn}]

InitCache == InitWith(CacheInputs)

NextCache ==
    \E r \in CacheInputs.requests :
        \/ getProviderInfo(r, CacheInputs)
        \/ fileExists(r, CacheInputs)
        \/ BlobExists(r)
        \/ HeadObject(r)
        \/ Return(r)

SpecCache == InitCache /\ [][NextCache]_vars

\* concurrent uploads through both adapters
UploadInputs ==
    [Inputs EXCEPT
        !.requests = Requests,
        !.pairs = {<<"onedigital", "uat">>, <<"onedigital", "prod">>}]

InitUpload == InitWith(UploadInputs)

NextUpload ==
    \E r \in UploadInputs.requests :
        \/ uploadFile(r, UploadInputs)
        \/ ContainerExists(r)
        \/ ContainerCreate(r)
        \/ SetAccessPolicy(r)
        \/ ContainerGetProperties(r)
        \/ BlobUpload(r)
        \/ HeadBucket(r)
        \/ PutObject(r)
        \/ Return(r)

SpecUpload == InitUpload /\ [][NextUpload]_vars

\* uploads with and without caller-supplied stamps, while time passes
StampInputs ==
    [Inputs EXCEPT
        !.pairs = {<<"onedigital", "uat">>, <<"onedigital", "prod">>},
        !.metadata = {EmptyMeta, CallerStamps, Counted}]

InitStamp == InitWith(StampInputs)

NextStamp ==
    \/ \E r \in StampInputs.requests :
        \/ uploadFile(r, StampInputs)
        \/ ContainerExists(r)
        \/ ContainerCreate(r)
        \/ SetAccessPolicy(r)
        \/ ContainerGetProperties(r)
        \/ BlobUpload(r)
        \/ HeadBucket(r)
        \/ PutObject(r)
        \/ Return(r)
    \/ Tick

SpecStamp == InitStamp /\ [][NextStamp]_vars

\* concurrent uploads, deletions, existence checks and download URLs
FilesInputs ==
    [Inputs EXCEPT
        !.requests = Requests,
        !.access = {"private"},
        !.containers = {EmptyFn}]

InitFiles == InitWith(FilesInputs)

NextFiles ==
    \E r \in FilesInputs.requests :
        \/ uploadFile(r, FilesInputs)
        \/ generateDownloadUrl(r, FilesInputs)
        \/ deleteFile(r, FilesInputs)
        \/ fileExists(r, FilesInputs)
        \/ ContainerExists(r)
        \/ ContainerCreate(r)
        \/ ContainerGetProperties(r)
        \/ BlobUpload(r)
        \/ BlobExists(r)
        \/ BlobDelete(r)
        \/ HeadBucket(r)
        \/ PutObject(r)
        \/ HeadObject(r)
        \/ GetObjectAcl(r)
        \/ GetBucketAcl(r)
        \/ GetSignedUrl(r)
        \/ DeleteObject(r)
        \/ Return(r)

SpecFiles == InitFiles /\ [][NextFiles]_vars

\* download URLs for public and private objects, with the expiry times callers
\* ask for, while time passes
DownloadInputs ==
    [Inputs EXCEPT
        !.pairs = {<<"onedigital", "uat">>, <<"onedigital", "prod">>},
        !.expiry = {NoExpiry, <<0>>, <<1>>, <<90>>},
        !.containers = {EmptyFn},
        !.bucketAcls = {BucketsPrivate, BucketsPublic}]

InitDownload == InitWith(DownloadInputs)

NextDownload ==
    \/ \E r \in DownloadInputs.requests :
        \/ uploadFile(r, DownloadInputs)
        \/ generateDownloadUrl(r, DownloadInputs)
        \/ ContainerExists(r)
        \/ ContainerCreate(r)
        \/ SetAccessPolicy(r)
        \/ ContainerGetProperties(r)
        \/ BlobUpload(r)
        \/ BlobExists(r)
        \/ HeadBucket(r)
        \/ PutObject(r)
        \/ HeadObject(r)
        \/ GetObjectAcl(r)
        \/ GetBucketAcl(r)
        \/ GetSignedUrl(r)
        \/ Return(r)
    \/ Tick

SpecDownload == InitDownload /\ [][NextDownload]_vars

\* uploads under the prefixes and file names the upload route lets through:
\* nested folders, and folder names with a space in them
UrlInputs ==
    [Inputs EXCEPT
        !.pairs = {<<"onedigital", "uat">>, <<"onedigital", "prod">>},
        !.prefixes = {NullName, <<"a", "/", "b">>, <<"my", " ", "docs">>},
        !.fileNames = {<<"f", ".", "txt">>},
        !.access = {"private"},
        !.containers = {EmptyFn}]

InitUrl == InitWith(UrlInputs)

NextUrl ==
    \E r \in UrlInputs.requests :
        \/ uploadFile(r, UrlInputs)
        \/ ContainerExists(r)
        \/ ContainerCreate(r)
        \/ ContainerGetProperties(r)
        \/ BlobUpload(r)
        \/ HeadBucket(r)
        \/ PutObject(r)
        \/ Return(r)

SpecUrl == InitUrl /\ [][NextUrl]_vars

\* caller metadata that names another tenant and environment
Spoofed == [platformId |-> StrVal("invictus"), environment |-> StrVal("uat")]

\* caller metadata that names a tenant the registry does not have
SpoofedUnknown == [platformId |-> StrVal("nosuch"), environment |-> StrVal("uat")]

\* the S3 adapter behind the routing layer
S3DocsPF == S3Url(<<"odprod">>, "ap-south-1", <<"docs", "/", "p", "/", "f">>)

S3Inputs ==
    [Inputs EXCEPT
        !.pairs = {<<"onedigital", "prod">>, <<"invictus", "uat">>},
        !.prefixes = {NullName, <<"p">>},
        !.access = {"private"},
        !.metadata = {EmptyMeta, Spoofed, SpoofedUnknown},
        !.urls = {S3DocsF, S3DocsPF},
        !.keys = {<<"f">>, <<"p", "/", "f">>},
        !.containers = {EmptyFn}]

InitS3 == InitWith(S3Inputs)

NextS3 ==
    \E r \in S3Inputs.requests :
        \/ uploadFile(r, S3Inputs)
        \/ deleteFileByBucketKey(r, S3Inputs)
        \/ fileExists(r, S3Inputs)
        \/ HeadBucket(r)
        \/ PutObject(r)
        \/ HeadObject(r)
        \/ DeleteObject(r)
        \/ Return(r)

SpecS3 == InitS3 /\ [][NextS3]_vars

\* resolving adapters for pairs of arbitrary strings, hyphens included
KeyInputs ==
    [CacheInputs EXCEPT
        !.pairs = {<<"onedigital", "uat">>, <<"onedigital", "prod">>,
                   <<"invictus", "uat">>, <<"invictus", "prod">>,
                   <<"a-b", "c">>, <<"a", "b-c">>}]

InitKeys == InitWith(KeyInputs)

NextKeys ==
    \E r \in KeyInputs.requests :
        \/ getProviderInfo(r, KeyInputs)
        \/ Return(r)

SpecKeys == InitKeys /\ [][NextKeys]_vars

\* the permanent URL of an object in a bucket that no tenant is configured with
S3OtherF == S3Url(<<"other">>, "ap-south-1", <<"docs", "/", "f">>)

\* the URL-addressed operations of the S3 adapter, on URLs of the tenant's
\* bucket and of another bucket
S3UrlInputs ==
    [Inputs EXCEPT
        !.pairs = {<<"onedigital", "prod">>},
        !.access = {"private"},
        !.prefixes = {NullName, <<"p">>},
        !.urls = {S3DocsF, S3DocsPF, S3OtherF},
        !.containers = {EmptyFn}]

InitS3Url == InitWith(S3UrlInputs)

NextS3Url ==
    \E r \in S3UrlInputs.requests :
        \/ uploadFile(r, S3UrlInputs)
        \/ generateDownloadUrl(r, S3UrlInputs)
        \/ deleteFile(r, S3UrlInputs)
        \/ getFileMetadata(r, S3UrlInputs)
        \/ fileExists(r, S3UrlInputs)
        \/ HeadBucket(r)
        \/ PutObject(r)
        \/ HeadObject(r)
        \/ GetObjectAcl(r)
        \/ GetBucketAcl(r)
        \/ GetSignedUrl(r)
        \/ DeleteObject(r)
        \/ Return(r)

SpecS3Url == InitS3Url /\ [][NextS3Url]_vars

\* uploads the adapters are handed without an object name, on both backends,
\* and without a container name, on S3
EmptyNameInputs ==
    [Inputs EXCEPT
        !.pairs = {<<"onedigital", "uat">>, <<"onedigital", "prod">>},
        !.fileNames = {<<"f">>, <<>>},
        !.access = {"private"},
        !.containers = {EmptyFn, DocsPrivate}]

EmptyBucketInputs ==
    [EmptyNameInputs EXCEPT
        !.pairs = {<<"onedigital", "prod">>},
        !.buckets = {<<>>},
        !.fileNames = {<<"f">>}]

InitEmpty == InitWith(EmptyNameInputs)

NextEmpty ==
    \E r \in EmptyNameInputs.requests :
        \/ uploadFile(r, EmptyNameInputs)
        \/ uploadFile(r, EmptyBucketInputs)
        \/ ContainerExists(r)
        \/ ContainerCreate(r)
        \/ ContainerGetProperties(r)
        \/ BlobUpload(r)
        \/ HeadBucket(r)
        \/ PutObject(r)
        \/ Return(r)

SpecEmpty == InitEmpty /\ [][NextEmpty]_vars

\* a service call of a route: the arguments, and what the route has done
ServiceOp(q, op, platformId, environment, url) ==
    [Idle EXCEPT !.route = q.route, !.op = op, !.platformId = platformId,
                 !.environment = environment, !.url = url,
                 !.log = Append(q.log, [call |-> op, url |-> url])]

\* the route sends its response
Respond(r, status, error) ==
    /\ req' = [req EXCEPT ![r] = [req[r] EXCEPT !.pc = "responded",
                                                !.route = IF req[r].route = "none"
                                                          THEN "delete-file"
                                                          ELSE req[r].route,
                                                !.http = Response(status, error)]]
    /\ UNCHANGED <<providerCache, instances, stores, now>>

\* router.delete('/delete-file'): up to the call of storageService.fileExists
DeleteFileRoute(r, in) ==
    /\ req[r].pc = "idle"
    /\ \E p \in in.pairs, fileUrl \in in.urls \cup {<<>>} :
        IF fileUrl = <<>>
        THEN Respond(r, 400, "fileUrl is required")
        ELSE ServiceCall(r, ServiceOp([Idle EXCEPT !.route = "delete-file"],
                                      "fileExists", p[1], p[2], fileUrl))

\* a delete-file route that deletes whatever the existence check answered
DeleteFileExistsSettledUnchecked(r) ==
    /\ req[r].route = "delete-file"
    /\ req[r].op = "fileExists"
    /\ req[r].pc = "done"
    /\ LET q == req[r]
       IN  ServiceCall(r, ServiceOp(q, "deleteFile", q.platformId, q.environment,
                                    q.url))

\* router.delete('/delete-file'): storageService.fileExists has settled
DeleteFileExistsSettled(r) ==
    /\ req[r].route = "delete-file"
    /\ req[r].op = "fileExists"
    /\ req[r].pc = "done"
    /\ LET q == req[r]
       IN  IF q.result.status = "threw" THEN Respond(r, 500, q.result.message)
           ELSE IF ~q.result.value THEN Respond(r, 400, "File not found")
           ELSE ServiceCall(r, ServiceOp(q, "deleteFile", q.platformId,
                                         q.environment, q.url))

\* router.delete('/delete-file'): storageService.deleteFile has settled
DeleteFileDeleteSettled(r) ==
    /\ req[r].route = "delete-file"
    /\ req[r].op = "deleteFile"
    /\ req[r].pc = "done"
    /\ LET q == req[r]
       IN  IF q.result.status = "threw" THEN Respond(r, 500, q.result.message)
           ELSE Respond(r, 200, "")

\* the response has gone out; the slot is free for the next request
EndRequest(r) ==
    /\ req[r].pc = "responded"
    /\ req' = [req EXCEPT ![r] = Idle]
    /\ UNCHANGED <<providerCache, instances, stores, now>>

\* concurrent delete-file requests, and the uploads that write what they delete
DeleteRouteInputs ==
    [Inputs EXCEPT
        !.requests = Requests,
        !.pairs = {<<"onedigital", "uat">>, <<"onedigital", "prod">>},
        !.access = {"private"},
        !.containers = {DocsPrivate}]

InitDeleteRoute == InitWith(DeleteRouteInputs)

NextDeleteRoute ==
    \E r \in DeleteRouteInputs.requests :
        \/ DeleteFileRoute(r, DeleteRouteInputs)
        \/ DeleteFileExistsSettled(r)
        \/ DeleteFileDeleteSettled(r)
        \/ EndRequest(r)
        \/ uploadFile(r, DeleteRouteInputs)
        \/ ContainerExists(r)
        \/ ContainerGetProperties(r)
        \/ BlobUpload(r)
        \/ BlobExists(r)
        \/ BlobDelete(r)
        \/ HeadBucket(r)
        \/ PutObject(r)
        \/ HeadObject(r)
        \/ DeleteObject(r)
        \/ Return(r)

SpecDeleteRoute == InitDeleteRoute /\ [][NextDeleteRoute]_vars

\* middlewares/platform-auth.js, mounted before every route: the request is
\* answered, or handed on with its platformContext
platformAuthMiddleware(r, in) ==
    /\ req[r].pc = "idle"
    /\ \E header \in in.headers, environment \in in.nodeEnvs :
        LET platformId == Str(header)
            config == getPlatformConfig(Str(LowerCase(Trim(header))), environment)
            answer(status, error) ==
                [Idle EXCEPT !.route = "middleware", !.pc = "responded",
                             !.platformId = platformId,
                             !.http = Response(status, error)]
        IN  req' = [req EXCEPT ![r] =
                IF header = <<>> THEN answer(400, "Missing X-Platform-ID header")
                ELSE IF environment = Undefined
                THEN answer(500, "Environment not configured")
                ELSE IF ~config.ok THEN answer(404, config.message)
                ELSE [Idle EXCEPT !.route = "metadata", !.pc = "next",
                                  !.platformId = platformId,
                                  !.environment = environment,
                                  !.config = config.config]]
    /\ UNCHANGED <<providerCache, instances, stores, now>>

\* router.get('/metadata'): up to the call of storageService.getFileMetadata
MetadataRoute(r, in) ==
    /\ req[r].route = "metadata"
    /\ req[r].pc = "next"
    /\ LET q == req[r]
       IN  \E fileUrl \in in.urls \cup {<<>>} :
             IF fileUrl = <<>>
             THEN Respond(r, 400, "fileUrl query parameter is required")
             ELSE ServiceCall(r, [ServiceOp(q, "getFileMetadata", q.platformId,
                                            q.environment, fileUrl)
                                    EXCEPT !.config = q.config])

\* router.get('/metadata'): storageService.getFileMetadata has settled
MetadataSettled(r) ==
    /\ req[r].route = "metadata"
    /\ req[r].op = "getFileMetadata"
    /\ req[r].pc = "done"
    /\ LET q == req[r]
       IN  IF q.result.status = "threw" THEN Respond(r, 500, q.result.message)
           ELSE Respond(r, 200, "")

\* requests with the X-Platform-ID headers clients send, under the values
\* NODE_ENV can have
AuthInputs ==
    [requests |-> {"r1"},
     headers |-> {<<>>, <<"onedigital">>, <<"ONEDIGITAL">>, <<"OneDigital">>,
                  <<" ", "onedigital", " ">>, <<"invictus">>, <<"nosuch">>},
     nodeEnvs |-> {Undefined, "uat", "prod", "dev"},
     urls |-> {AzureDocsF, S3DocsF},
     containers |-> {EmptyFn},
     bucketAcls |-> {BucketsPrivate}]

InitAuth == InitWith(AuthInputs)

NextAuth ==
    \E r \in AuthInputs.requests :
        \/ platformAuthMiddleware(r, AuthInputs)
        \/ MetadataRoute(r, AuthInputs)
        \/ MetadataSettled(r)
        \/ BlobGetProperties(r)
        \/ HeadObject(r)
        \/ EndRequest(r)

SpecAuth == InitAuth /\ [][NextAuth]_vars

\* the kinds and configs callers hand to the factory
ProviderTypes ==
    {"azure", "AZURE", "Azure", "aZuRe", "aws", "AWS", "Aws", "s3", "S3",
     "gcs", "GCS", "azure ", ""}

Configs ==
    {getPlatformConfig(p[1], p[2]).config :
        p \in {<<"onedigital", "uat">>, <<"onedigital", "prod">>,
               <<"brokerage", "uat">>}}

\* StorageProviderFactory.createProvider(providerType, config), called directly
CreateProvider(r) ==
    /\ req[r].pc = "idle"
    /\ \E providerType \in ProviderTypes, config \in Configs :
        LET made == createProvider(providerType, config)
            q == [Idle EXCEPT !.op = "createProvider", !.pc = "done",
                              !.providerType = providerType, !.config = config]
        IN  IF made.ok
            THEN /\ Len(instances) < MaxInstances
                 /\ instances' = Append(instances,
                                        made.adapter
                                        @@ [madeFor |-> <<Undefined, Undefined>>])
                 /\ req' = [req EXCEPT ![r] =
                              [q EXCEPT !.provider = Len(instances) + 1,
                                        !.result = Returned(Len(instances) + 1)]]
            ELSE /\ instances' = instances
                 /\ req' = [req EXCEPT ![r] =
                              [q EXCEPT !.result = Threw(made.message)]]
    /\ UNCHANGED <<providerCache, stores, now>>

FactoryInputs ==
    [Inputs EXCEPT !.pairs = {<<"onedigital", "uat">>, <<"onedigital", "prod">>},
                   !.containers = {EmptyFn}]

InitFactory == InitWith(FactoryInputs)

NextFactory ==
    \E r \in FactoryInputs.requests :
        \/ CreateProvider(r)
        \/ getProviderInfo(r, FactoryInputs)
        \/ Return(r)

SpecFactory == InitFactory /\ [][NextFactory]_vars

\* the names callers send to the sanitizers: every string of at most
\* MaxNameLen characters over letters of both cases, digits, whitespace,
\* hyphens, dots and a character no name may keep
NameChars == {"a", "A", "1", " ", "-", ".", "#"}

RawNames == UNION {[1..n -> NameChars] : n \in 0..MaxNameLen}

\* sanitizeFileName(originalname), as the upload route calls it
SanitizeFileName(r) ==
    /\ req[r].pc = "idle"
    /\ \E x \in RawNames :
        req' = [req EXCEPT ![r] =
                  [Idle EXCEPT !.op = "sanitizeFileName", !.pc = "done",
                               !.fileName = x,
                               !.result = Returned(sanitizeFileName(x))]]
    /\ UNCHANGED <<providerCache, instances, stores, now>>

\* sanitizeBucketName(bucketName), as the upload route calls it
SanitizeBucketName(r) ==
    /\ req[r].pc = "idle"
    /\ \E x \in RawNames :
        req' = [req EXCEPT ![r] =
                  [Idle EXCEPT !.op = "sanitizeBucketName", !.pc = "done",
                               !.bucketName = x,
                               !.result = Returned(sanitizeBucketName(x))]]
    /\ UNCHANGED <<providerCache, instances, stores, now>>

InitSanitize == InitWith([Inputs EXCEPT !.containers = {EmptyFn}])

NextSanitize ==
    \E r \in Inputs.requests :
        \/ SanitizeFileName(r)
        \/ SanitizeBucketName(r)
        \/ Return(r)

SpecSanitize == InitSanitize /\ [][NextSanitize]_vars

-----------------------------------------------------------------------------
(* The provider cache *)

InFlight(r) == req[r].pc \notin {"idle", "done"}

SamePair(q1, q2) ==
    q1.platformId = q2.platformId /\ q1.environment = q2.environment

MadeFor(platformId, environment) ==
    {i \in DOMAIN instances : instances[i].madeFor = <<platformId, environment>>}

\* C1: however many requests for one (tenant, environment) pair are in flight
\* at once, the factory has constructed at most one adapter for the pair,
\* exactly one once a request holds an adapter, and all the requests for the
\* pair hold that same adapter.
CacheSingleton ==
    /\ \A p \in CacheInputs.pairs : Cardinality(MadeFor(p[1], p[2])) <= 1
    /\ \A r1, r2 \in Requests :
        (req[r1].provider # 0 /\ req[r2].provider # 0 /\ SamePair(req[r1], req[r2]))
            => /\ req[r1].provider = req[r2].provider
               /\ MadeFor(req[r1].platformId, req[r1].environment)
                    = {req[r1].provider}

\* two requests for the same pair are in flight at once, the first of them
\* having found the cache empty
CacheSingletonWitness ==
    \E r1, r2 \in Requests :
        /\ r1 # r2 /\ InFlight(r1) /\ InFlight(r2)
        /\ SamePair(req[r1], req[r2])
        /\ ~req[r1].hit
        /\ req[r1].provider # 0 /\ req[r1].provider = req[r2].provider

\* pairs that differ in the environment alone, or in the tenant alone
Neighbours(p1, p2) ==
    \/ p1[1] = p2[1] /\ p1[2] # p2[2]
    \/ p1[1] # p2[1] /\ p1[2] = p2[2]

\* C2: the adapters of (A, uat) and (A, prod), and those of (A, uat) and
\* (B, uat), are different objects, each constructed by a factory call of its
\* own for its own pair, both in the cache and in the hands of the requests.
CachePartitioning ==
    /\ \A p1, p2 \in CacheInputs.pairs :
        (/\ Neighbours(p1, p2)
         /\ CacheKey(p1[1], p1[2]) \in DOMAIN providerCache
         /\ CacheKey(p2[1], p2[2]) \in DOMAIN providerCache)
            => /\ providerCache[CacheKey(p1[1], p1[2])]
                    # providerCache[CacheKey(p2[1], p2[2])]
               /\ instances[providerCache[CacheKey(p1[1], p1[2])]].madeFor = p1
    /\ \A r1, r2 \in Requests :
        (/\ req[r1].provider # 0 /\ req[r2].provider # 0
         /\ Neighbours(<<req[r1].platformId, req[r1].environment>>,
                       <<req[r2].platformId, req[r2].environment>>))
            => /\ req[r1].provider # req[r2].provider
               /\ instances[req[r1].provider].madeFor
                    = <<req[r1].platformId, req[r1].environment>>

\* the adapters of (A, uat), (A, prod) and (B, uat) are all in the cache
CachePartitioningWitness ==
    /\ CacheKey("onedigital", "uat") \in DOMAIN providerCache
    /\ CacheKey("onedigital", "prod") \in DOMAIN providerCache
    /\ CacheKey("invictus", "uat") \in DOMAIN providerCache

IsResolveCall(c) == c.call \in {"getPlatformConfig", "createProvider"}

\* C3: a cache entry is never removed or replaced, and a request whose key is
\* in the cache gets the cached adapter without a registry lookup and without
\* a factory call.
CacheHitStable ==
    [][/\ \A k \in DOMAIN providerCache :
            k \in DOMAIN providerCache' /\ providerCache'[k] = providerCache[k]
       /\ \A r \in Requests :
            (/\ req[r].pc = "idle" /\ req'[r].pc # "idle"
             /\ CacheKey(req'[r].platformId, req'[r].environment)
                    \in DOMAIN providerCache)
                => /\ req'[r].provider
                        = providerCache[CacheKey(req'[r].platformId,
                                                 req'[r].environment)]
                   /\ \A i \in DOMAIN req'[r].calls : ~IsResolveCall(req'[r].calls[i])
                   /\ instances' = instances]_vars

\* a request was served from the cache
CacheHitStableWitness ==
    \E r \in Requests : req[r].hit /\ req[r].provider # 0 /\ req[r].pc # "idle"

-----------------------------------------------------------------------------
(* Uploads *)

IsUpload(q, kind) ==
    q.op = "uploadFile" /\ q.provider # 0 /\ instances[q.provider].kind = kind

StampedTimes == {StrVal(toISOString(t)) : t \in 0..now}

Stamped(meta, kind) ==
    /\ meta["provider"] = StrVal(kind)
    /\ meta["uploadedAt"] \in StampedTimes

\* C4: the metadata of every stored object carries the adapter's own backend
\* name under provider and a time the adapter read from the clock under
\* uploadedAt, whatever the caller supplied under those two keys.
StampsOwnedByAdapter ==
    /\ \A o \in DOMAIN azBlobs : Stamped(azBlobs[o], "azure")
    /\ \A o \in DOMAIN s3Objects : Stamped(s3Objects[o].metadata, "s3")

\* C5: an Azure upload that found the container existing, with an access
\* level other than the requested one, has failed with the access-mismatch
\* message, has written no blob, and has neither created the container nor
\* set its access policy.
AccessMismatchRejected ==
    \A r \in Requests :
        LET q == req[r]
        IN  (/\ IsUpload(q, "azure")
             /\ q.containerExists
             /\ q.accessSeen \in {"public", "private"}
             /\ q.accessSeen # q.access)
                => /\ q.pc = "done"
                   /\ q.adapter = Threw("Azure upload failed: Container "
                                        \o Str(q.bucketName)
                                        \o " access mismatch: currently " \o q.accessSeen
                                        \o ", requested " \o q.access)
                   /\ ~q.wrote /\ ~q.created /\ ~q.policySet

\* C10: no upload sees the container of another upload that has created it
\* and has not yet finished (its access policy not yet set, or its blob not
\* yet written).
UploadAtomic ==
    \A r1, r2 \in Requests :
        LET q1 == req[r1]
            q2 == req[r2]
        IN  ~(/\ r1 # r2
              /\ IsUpload(q1, "azure") /\ q1.created /\ q1.pc # "done"
              /\ IsUpload(q2, "azure") /\ q2.containerExists
              /\ AzContainer(instances[q1.provider], q1)
                    = AzContainer(instances[q2.provider], q2))

-----------------------------------------------------------------------------
(* Download URLs, existence checks and deletions *)

IsOp(q, op, kind) ==
    q.op = op /\ q.provider # 0 /\ instances[q.provider].kind = kind

\* the object was not there when the request checked for it
FoundNothing(q) == q.checked \in {"absent", "deleted"}

NotFoundError(kind) ==
    IF kind = "azure" THEN Threw("Azure SAS generation failed: File not found")
    ELSE Threw("S3 download URL generation failed: File not found")

\* C6, as stated: generateDownloadUrl on an object that does not exist has
\* failed with the adapter's 'File not found' error and has made no signing
\* call.
DownloadNotFound ==
    \A r \in Requests : \A kind \in {"azure", "s3"} :
        (IsOp(req[r], "generateDownloadUrl", kind) /\ FoundNothing(req[r]))
            => /\ req[r].pc = "done"
               /\ req[r].adapter = NotFoundError(kind)
               /\ ~req[r].signed

\* C6, amended: generateDownloadUrl on an object that does not exist has
\* failed and has made no signing call; the error is 'File not found' when
\* the existence check answered (on Azure always, on S3 when HeadObject
\* answered NotFound) and the backend's own error when HeadObject on S3 failed
\* otherwise; and a request that signed had seen the object exist.
DownloadGated ==
    \A r \in Requests : \A kind \in {"azure", "s3"} :
        LET q == req[r]
        IN  IsOp(q, "generateDownloadUrl", kind)
            => /\ FoundNothing(q)
                    => /\ q.pc = "done"
                       /\ ~q.signed
                       /\ q.exists \in {"false", "threw"}
                       /\ q.exists = "false"
                            => /\ q.adapter = NotFoundError(kind)
                               /\ q.result = Threw("Download URL generation failed: "
                                                   \o q.adapter.message)
                       /\ q.exists = "threw"
                            => /\ kind = "s3"
                               /\ q.adapter = Threw("S3 download URL generation failed: "
                                                    \o BackendError)
               /\ q.signed => q.exists = "true" /\ q.checked = "present"

\* both adapters have refused a download URL for an object that is not there
DownloadGatedWitness ==
    \E r1, r2 \in Requests :
        /\ IsOp(req[r1], "generateDownloadUrl", "azure")
        /\ IsOp(req[r2], "generateDownloadUrl", "s3")
        /\ FoundNothing(req[r1]) /\ FoundNothing(req[r2])
        /\ req[r1].adapter = NotFoundError("azure")
        /\ req[r2].adapter = NotFoundError("s3")

\* C7: the routing fileExists never throws: it returns false when resolving
\* the adapter failed or the adapter's fileExists threw, and the adapter's
\* boolean otherwise.
FileExistsNeverThrows ==
    \A r \in Requests :
        LET q == req[r]
        IN  (q.op = "fileExists" /\ q.pc = "done")
            => /\ q.result.status = "returned"
               /\ q.result.value \in BOOLEAN
               /\ q.resolveError # "" => q.result.value = FALSE
               /\ q.adapter.status = "threw" => q.result.value = FALSE
               /\ q.adapter.status = "returned" => q.result = q.adapter
               /\ q.adapter.status = "none" => q.resolveError # ""

\* the routing fileExists has returned false for an adapter error that is not
\* a not-found, and another has returned false for a tenant that is not
\* configured
FileExistsNeverThrowsWitness ==
    \E r1, r2 \in Requests :
        /\ req[r1].op = "fileExists" /\ req[r1].pc = "done"
        /\ req[r1].adapter = Threw(BackendError)
        /\ req[r1].result = Returned(FALSE)
        /\ req[r2].op = "fileExists" /\ req[r2].pc = "done"
        /\ req[r2].resolveError # ""
        /\ req[r2].result = Returned(FALSE)

\* the request checked for an object that was uploaded, then deleted, and not
\* uploaded again
CheckedAfterDelete(q) ==
    q.op = "fileExists" /\ q.pc = "done" /\ q.checked = "deleted"

\* C8, as stated: fileExists on an object that was uploaded and then deleted
\* returns false from the adapter of every backend, without throwing.
DeletedThenAbsent ==
    \A r \in Requests :
        CheckedAfterDelete(req[r]) => req[r].adapter = Returned(FALSE)

\* C8, amended: fileExists on an object that was uploaded and then deleted
\* never returns true; the Azure adapter and the routing layer return false,
\* and the S3 adapter returns false unless HeadObject fails with an error
\* other than NotFound, which it rethrows.
DeletedNeverFound ==
    \A r \in Requests : \A kind \in {"azure", "s3"} :
        LET q == req[r]
        IN  (CheckedAfterDelete(q) /\ IsOp(q, "fileExists", kind))
            => /\ q.result = Returned(FALSE)
               /\ q.adapter \in {Returned(FALSE), Threw(BackendError)}
               /\ q.adapter = Threw(BackendError) => kind = "s3" /\ q.exists = "threw"
               /\ kind = "azure" => q.adapter = Returned(FALSE)

\* both adapters have answered false for an object uploaded and then deleted
DeletedNeverFoundWitness ==
    \E r1, r2 \in Requests :
        /\ CheckedAfterDelete(req[r1]) /\ IsOp(req[r1], "fileExists", "azure")
        /\ CheckedAfterDelete(req[r2]) /\ IsOp(req[r2], "fileExists", "s3")
        /\ req[r1].adapter = Returned(FALSE)
        /\ req[r2].adapter = Returned(FALSE)

-----------------------------------------------------------------------------
(* Error wrapping *)

Wrapping ==
    [uploadFile |-> "Upload failed: ",
     generateDownloadUrl |-> "Download URL generation failed: ",
     deleteFile |-> "Delete failed: ",
     deleteFileByBucketKey |-> "Delete by bucket key failed: ",
     getFileMetadata |-> "Get metadata failed: "]

\* the error the routing operation caught, if any
Inner(q) ==
    IF q.resolveError # "" THEN <<q.resolveError>>
    ELSE IF q.adapter.status = "threw" THEN <<q.adapter.message>>
    ELSE <<>>

\* C9: a routing operation other than fileExists that failed, in the adapter
\* or while resolving it, has thrown its fixed prefix followed by the inner
\* error's message, and one that returned a result did not fail.
FailuresWrapped ==
    \A r \in Requests :
        LET q == req[r]
        IN  (q.pc = "done" /\ q.op \in DOMAIN Wrapping)
            => /\ Inner(q) # <<>> => q.result = Threw(Wrapping[q.op] \o Inner(q)[1])
               /\ Inner(q) = <<>> => q.result.status = "returned"
                                     /\ q.adapter.status = "returned"

\* a metadata request has failed in the adapter and was rethrown wrapped
FailuresWrappedWitness ==
    \E r \in Requests :
        /\ req[r].pc = "done" /\ req[r].op = "getFileMetadata"
        /\ req[r].adapter.status = "threw"
        /\ req[r].result = Threw("Get metadata failed: " \o req[r].adapter.message)

-----------------------------------------------------------------------------
(* Metadata values *)

\* the object an upload has written, if it is the last to have written it
StoredMetadata(q) ==
    IF instances[q.provider].kind = "azure"
    THEN azBlobs[AzObject(instances[q.provider], q)]
    ELSE s3Objects[S3Object(q)].metadata

\* C11: an upload whose metadata holds numbers or booleans is not refused for
\* that, and the metadata it stores holds, under every key of the caller, the
\* string form of the caller's value.
MetadataStringified ==
    \A r \in Requests :
        LET q == req[r]
        IN  (q.op = "uploadFile" /\ q.pc = "done" /\ NonStrings(q.metadata) # {})
            => /\ q.adapter.status = "threw"
                    => \A k \in NonStrings(q.metadata) :
                          q.adapter.message
                            # "Azure upload failed: " \o MetadataTypeError(k, q.metadata[k])
               /\ q.wrote
                    => \A k \in DOMAIN q.metadata :
                          StoredMetadata(q)[k] = StrVal(q.metadata[k].s)

-----------------------------------------------------------------------------
(* Download URLs *)

\* a download URL request that has ended, its existence check answered true
Downloaded(q, kind) ==
    /\ IsOp(q, "generateDownloadUrl", kind)
    /\ q.pc = "done" /\ q.checked = "present" /\ q.exists = "true"

\* the object was publicly readable when the request looked: through its
\* container on Azure, through its own ACL or its bucket's on S3
PubliclyReadable(q, kind) ==
    IF kind = "azure" THEN q.accessSeen = "public"
    ELSE q.accessSeen = "public-read" \/ q.bucketSeen = "public"

\* C12: a download URL request for an existing object that is publicly
\* readable, through the object or through its container or bucket, returns
\* the permanent URL unchanged with isPublic = true, requiresSAS = false,
\* expiresIn = null and no expiresAt, and makes no signing call.
PublicDirect ==
    \A r \in Requests : \A kind \in {"azure", "s3"} :
        LET q == req[r]
        IN  (Downloaded(q, kind) /\ PubliclyReadable(q, kind))
            => /\ q.adapter.status = "returned"
               /\ q.adapter.value.downloadUrl = q.url
               /\ q.adapter.value.isPublic = TRUE
               /\ q.adapter.value.requiresSAS = FALSE
               /\ q.adapter.value.expiresIn = <<>>
               /\ q.adapter.value.expiresAt = <<>>
               /\ q.result = q.adapter
               /\ ~q.signed


\* C13: a download URL request for an existing private object returns
\* requiresSAS = true and expiresIn = expiryMinutes * 60 for every expiryMinutes
\* supplied, zero included, and expiresIn = 3600 when none is supplied.
ExpiryAsRequested ==
    \A r \in Requests : \A kind \in {"azure", "s3"} :
        LET q == req[r]
        IN  (/\ Downloaded(q, kind) /\ ~PubliclyReadable(q, kind)
             /\ q.adapter.status = "returned")
            => /\ q.adapter.value.requiresSAS = TRUE
               /\ q.adapter.value.expiresIn
                    = IF q.expiryMinutes = NoExpiry THEN <<3600>>
                      ELSE <<q.expiryMinutes[1] * 60>>

\* the step in which the Azure adapter issues a signed URL for request r
IssuesSas(r) ==
    /\ req[r].pc # "done" /\ req'[r].pc = "done"
    /\ IsOp(req[r], "generateDownloadUrl", "azure")
    /\ req'[r].signed /\ req'[r].adapter.status = "returned"

\* C14: the window of a URL the Azure adapter signs starts 5 minutes before
\* the time of issue and ends expiryMinutes after it, so it is expiryMinutes + 5
\* minutes long, while the caller is told expiresIn = expiryMinutes * 60 and
\* expiresAt = time of issue + expiryMinutes; expiryMinutes is the request's
\* when that is positive and 60 when the request has none.
SkewNotReported ==
    [][\A r \in Requests :
        IssuesSas(r) =>
            LET v == req'[r].adapter.value
                x == req[r].expiryMinutes
                e == v.expiresAt[1] - now
            IN  /\ v.requiresSAS = TRUE
                /\ v.startsOn = <<now - 5>>
                /\ v.expiresAt[1] - v.startsOn[1] = e + 5
                /\ v.expiresIn = <<e * 60>>
                /\ x = NoExpiry => e = 60
                /\ (x # NoExpiry /\ x[1] > 0) => e = x[1]]_vars

\* the Azure adapter has signed a URL for 90 minutes after time has passed
SkewNotReportedWitness ==
    \E r \in Requests :
        /\ IsOp(req[r], "generateDownloadUrl", "azure")
        /\ req[r].pc = "done" /\ req[r].signed
        /\ req[r].adapter.status = "returned"
        /\ req[r].expiryMinutes = <<90>>
        /\ req[r].adapter.value.startsOn = <<1 - 5>>
        /\ req[r].adapter.value.expiresAt = <<1 + 90>>
        /\ req[r].adapter.value.expiresIn = <<5400>>

-----------------------------------------------------------------------------
(* Deleting by container and key *)

\* the object an ended deleteFileByBucketKey addressed is gone
TargetGone(q, kind) ==
    IF kind = "azure"
    THEN AzObject(instances[q.provider], q) \notin DOMAIN azBlobs
    ELSE S3Object(q) \notin DOMAIN s3Objects

\* C15: deleteFileByBucketKey with an empty or absent key addresses the path
\* that is exactly the container name, with a key the path container/key (on
\* Azure: the blob key of the container), and when it succeeds the object at
\* that path is gone.
DeleteByKeyTarget ==
    \A r \in Requests : \A kind \in {"azure", "s3"} :
        LET q == req[r]
        IN  (IsOp(q, "deleteFileByBucketKey", kind) /\ q.pc = "done")
            => /\ Falsy(q.key) => q.tKey = q.bucketName
               /\ (~Falsy(q.key) /\ kind = "s3")
                    => q.tKey = q.bucketName \o <<"/">> \o q.key
               /\ (~Falsy(q.key) /\ kind = "azure")
                    => q.tBucket = q.bucketName /\ q.tKey = q.key
               /\ q.adapter = Returned(TRUE) => TargetGone(q, kind)

-----------------------------------------------------------------------------
(* Permanent URLs *)

\* C16: parsing the permanent URL an upload returned gives back the container
\* (bucket) and the key (blob path) the object was written under, keys with
\* '/' in them included.
UrlRoundTrip ==
    \A r \in Requests :
        LET q == req[r]
        IN  (q.op = "uploadFile" /\ q.pc = "done" /\ q.wrote)
            => IF instances[q.provider].kind = "azure"
               THEN /\ AzureParseUrl(q.adapter.value).ok
                    /\ AzureParseUrl(q.adapter.value).containerName = q.tBucket
                    /\ AzureParseUrl(q.adapter.value).blobName = q.tKey
               ELSE /\ S3ParseUrl(q.adapter.value).ok
                    /\ S3ParseUrl(q.adapter.value).bucketName = q.tBucket
                    /\ S3ParseUrl(q.adapter.value).key = q.tKey

-----------------------------------------------------------------------------
(* Sanitizing names *)

\* C17: sanitizing a sanitized name changes nothing, for file names and for
\* bucket names, the empty name included.
SanitizeIdempotent ==
    \A r \in Requests :
        LET q == req[r]
        IN  /\ q.op = "sanitizeFileName"
                => sanitizeFileName(q.result.value) = q.result.value
            /\ q.op = "sanitizeBucketName"
                => sanitizeBucketName(q.result.value) = q.result.value

-----------------------------------------------------------------------------
(* The factory *)

AzureSpellings == {"azure", "AZURE", "Azure", "aZuRe"}
S3Spellings == {"aws", "AWS", "Aws", "s3", "S3"}

\* the call constructed a new adapter of this kind with the config it was given
ConstructedNew(r, kind) ==
    LET q == req'[r]
    IN  /\ q.result = Returned(q.provider)
        /\ q.provider = Len(instances) + 1
        /\ Len(instances') = Len(instances) + 1
        /\ SubSeq(instances', 1, Len(instances)) = instances
        /\ instances'[q.provider].kind = kind
        /\ instances'[q.provider].config = q.config

\* the call failed with this message and constructed nothing
FailedWith(r, message) ==
    /\ req'[r].result = Threw(message)
    /\ instances' = instances

\* C18: the factory matches the kind without regard to case: any spelling of
\* azure constructs the Azure adapter, any spelling of aws or s3 the S3
\* adapter, each with the config given; any other kind fails with
\* "Unsupported storage provider: <kind>" and constructs nothing. Every
\* successful call adds a new instance, and the factory touches no cache.
FactoryContract ==
    [][\A r \in Requests :
        (req[r].pc = "idle" /\ req'[r].op = "createProvider")
        => LET q == req'[r]
               azure == AzureStorageProvider(q.config)
               s3 == AWSS3StorageProvider(q.config)
           IN  /\ providerCache' = providerCache
               /\ q.providerType \in AzureSpellings
                    => IF azure.ok THEN ConstructedNew(r, "azure")
                       ELSE FailedWith(r, azure.message)
               /\ q.providerType \in S3Spellings
                    => IF s3.ok THEN ConstructedNew(r, "s3")
                       ELSE FailedWith(r, s3.message)
               /\ q.providerType \notin AzureSpellings \cup S3Spellings
                    => FailedWith(r, "Unsupported storage provider: "
                                     \o q.providerType)]_vars

\* a call with the kind in upper case has constructed a second instance for a
\* config the factory had already constructed one for
FactoryContractWitness ==
    \E r \in Requests :
        LET q == req[r]
        IN  /\ q.op = "createProvider"
            /\ q.providerType = "AZURE"
            /\ q.result = Returned(q.provider)
            /\ \E i \in DOMAIN instances :
                /\ i # q.provider
                /\ instances[i].config = instances[q.provider].config
                /\ instances[i].kind = "azure"

-----------------------------------------------------------------------------
(* The delete-file route *)

InDeleteRoute(q, op) == q.route = "delete-file" /\ q.op = op

Call(op, url) == [call |-> op, url |-> url]

-----------------------------------------------------------------------------
(* Private uploads and public containers *)

ContainerOf(q) == AzContainer(instances[q.provider], q)

\* C20: an Azure upload with access private that has succeeded has its blob
\* in a container that is not public, whatever the concurrent uploads did and
\* whether or not the container's properties could be read.
PrivateNeverPublic ==
    \A r \in Requests :
        LET q == req[r]
        IN  (IsUpload(q, "azure") /\ q.pc = "done" /\ q.wrote /\ q.access = "private")
                => /\ ContainerOf(q) \in DOMAIN azContainers
                   /\ azContainers[ContainerOf(q)] # "public"

-----------------------------------------------------------------------------
(* The physical bucket of the S3 adapter *)

\* the bucket the registry configures for the pair the request was routed with
ConfiguredBucket(q) == getPlatformConfig(q.platformId, q.environment).config.bucketName

\* C21: an S3 upload that the routing layer has handed to the adapter works
\* on the bucket configured for the tenant and environment it was routed
\* with, whatever metadata the caller supplied.
BucketByRoutedPair ==
    \A r \in Requests :
        LET q == req[r]
        IN  IsUpload(q, "s3") => q.tBucket = ConfiguredBucket(q)


-----------------------------------------------------------------------------
(* Failed uploads *)

\* C22: an upload whose adapter call has failed has created no container,
\* changed no access policy and written no object.
FailedUploadLeavesNothing ==
    \A r \in Requests :
        LET q == req[r]
        IN  (q.op = "uploadFile" /\ q.provider # 0 /\ q.pc = "done"
             /\ q.adapter.status = "threw")
                => ~q.created /\ ~q.policySet /\ ~q.wrote


\* 'c/p/n', or 'c/n' when there is no prefix
KeyOf(c, pre, n) ==
    IF Falsy(pre) THEN c \o <<"/">> \o n ELSE c \o <<"/">> \o pre \o <<"/">> \o n

\* the request has given the backend call its bucket and key
Addressed(q) == q.pc \in {"PutObject", "DeleteObject"} \/ (q.pc = "done" /\ q.wrote)

-----------------------------------------------------------------------------
(* Cache keys of arbitrary pairs *)

PairOf(q) == <<q.platformId, q.environment>>

KeyOfPair(p) == CacheKey(p[1], p[2])

\* the adapter was built for the pair p, from the pair's configuration
BuiltFor(i, p) ==
    /\ instances[i].madeFor = p
    /\ instances[i].config = getPlatformConfig(p[1], p[2]).config

\* C24, as stated: any two distinct pairs of strings have different cache
\* keys, and requests for distinct pairs never hold the same adapter nor one
\* built for another pair.
KeysPartitionAllPairs ==
    \A r1, r2 \in Requests :
        (req[r1].op # "idle" /\ req[r2].op # "idle" /\ PairOf(req[r1]) # PairOf(req[r2]))
            => /\ KeyOfPair(PairOf(req[r1])) # KeyOfPair(PairOf(req[r2]))
               /\ req[r1].provider # 0
                    => /\ req[r1].provider # req[r2].provider
                       /\ BuiltFor(req[r1].provider, PairOf(req[r1]))

\* C24: a pair that got an adapter has a cache key no other pair has, so
\* requests for distinct pairs never hold the same adapter, an adapter a
\* request holds was built for its pair from its pair's configuration, and
\* every cache entry holds the adapter built for the pair of its key.
KeysPartitionResolved ==
    /\ \A r1, r2 \in Requests :
        (req[r1].provider # 0 /\ req[r2].op # "idle"
         /\ PairOf(req[r1]) # PairOf(req[r2]))
            => /\ KeyOfPair(PairOf(req[r1])) # KeyOfPair(PairOf(req[r2]))
               /\ req[r1].provider # req[r2].provider
               /\ BuiltFor(req[r1].provider, PairOf(req[r1]))
    /\ \A k \in DOMAIN providerCache :
        \A p \in KeyInputs.pairs :
            KeyOfPair(p) = k <=> instances[providerCache[k]].madeFor = p

\* two requests hold the adapters of two tenants in one environment, both
\* served from the cache
KeysPartitionResolvedWitness ==
    \E r1, r2 \in Requests :
        /\ PairOf(req[r1]) = <<"onedigital", "prod">>
        /\ PairOf(req[r2]) = <<"invictus", "prod">>
        /\ req[r1].provider # 0 /\ req[r2].provider # 0
        /\ req[r1].hit /\ req[r2].hit


-----------------------------------------------------------------------------
(* The auth middleware and the routing layer *)

\* C25: a request the middleware has handed on resolves its adapter in the
\* routing layer: the registry has the platformContext's tenant and
\* environment, under them the configuration the middleware attached, and the
\* service call of the route has not failed to find the tenant.
AcceptedTenantResolves ==
    \A r \in Requests :
        LET q == req[r]
        IN  /\ (q.route = "metadata" /\ q.pc = "next")
                => /\ getPlatformConfig(q.platformId, q.environment).ok
                   /\ getPlatformConfig(q.platformId, q.environment).config = q.config
            /\ (q.route = "metadata" /\ q.op = "getFileMetadata")
                => q.resolveError = ""


-----------------------------------------------------------------------------
(* Failed resolutions *)

\* the request that starts in this step fails to get its adapter
ResolveFails(r) ==
    req[r].pc = "idle" /\ req'[r].op # "idle" /\ req'[r].resolveError # ""

\* C26: a getStorageProvider call that fails changes neither the cache nor
\* the set of adapters: its key is in the cache neither before nor after,
\* the other entries stay as they are, and the call has gone to the registry
\* (and, the configuration found, to the factory) rather than to the cache.
FailedResolveLeavesCache ==
    [][\A r \in Requests :
        ResolveFails(r)
        => LET q == req'[r]
               config == getPlatformConfig(q.platformId, q.environment)
           IN  /\ providerCache' = providerCache
               /\ instances' = instances
               /\ CacheKey(q.platformId, q.environment) \notin DOMAIN providerCache'
               /\ q.provider = 0
               /\ ~q.hit
               /\ q.calls = IF config.ok
                            THEN <<Lookup(q.platformId, q.environment),
                                   Construct(config.config.provider)>>
                            ELSE <<Lookup(q.platformId, q.environment)>>]_vars

\* two requests for a pair whose adapter cannot be constructed have both gone
\* to the registry and the factory and failed, while the cache holds the
\* adapters of other pairs
FailedResolveLeavesCacheWitness ==
    \E r1, r2 \in Requests :
        /\ r1 # r2
        /\ PairOf(req[r1]) = <<"brokerage", "uat">>
        /\ PairOf(req[r2]) = <<"brokerage", "uat">>
        /\ req[r1].resolveError # "" /\ req[r2].resolveError # ""
        /\ Len(req[r1].calls) = 2 /\ Len(req[r2].calls) = 2
        /\ DOMAIN providerCache # {}


-----------------------------------------------------------------------------
(* The bucket of the S3 adapter's backend calls *)

S3Calls ==
    {"HeadBucket", "PutObject", "HeadObject", "GetObjectAcl", "GetBucketAcl",
     "GetSignedUrl", "DeleteObject"}

\* C27: every backend call of the S3 adapter is on the bucket configured for
\* the tenant and environment of the request, whatever URL the caller gave.
CallsInConfiguredBucket ==
    \A r \in Requests :
        LET q == req[r]
        IN  (q.provider # 0 /\ instances[q.provider].kind = "s3" /\ q.pc \in S3Calls)
                => q.tBucket = ConfiguredBucket(q)


-----------------------------------------------------------------------------
(* The S3 adapter and buckets that do not exist *)

BucketMissing(bucket) ==
    Threw("S3 upload failed: Bucket " \o Str(bucket)
          \o " does not exist.Please Create the bucket first.")

-----------------------------------------------------------------------------
(* fileExists of the adapters *)

\* C29: an adapter's fileExists answers false when the backend says the object
\* is not there. On S3 it answers true only for an object that is there, false
\* only for one that is not, and otherwise rethrows the error of HeadObject as
\* it came; on Azure it never throws: it answers true only for a blob that is
\* there and false in every other case.
AdapterFileExists ==
    [][\A r \in Requests :
         LET q == req[r]
             after == req'[r]
         IN  /\ (q.op = "fileExists" /\ q.pc = "HeadObject" /\ after # q)
                 => \/ /\ after.adapter = Returned(TRUE)
                       /\ S3Object(q) \in DOMAIN s3Objects
                    \/ /\ after.adapter = Returned(FALSE)
                       /\ S3Object(q) \notin DOMAIN s3Objects
                    \/ after.adapter = Threw(BackendError)
             /\ (q.op = "fileExists" /\ q.pc = "BlobExists" /\ after # q)
                 => \/ /\ after.adapter = Returned(TRUE)
                       /\ AzObject(instances[q.provider], q) \in DOMAIN azBlobs
                    \/ after.adapter = Returned(FALSE)]_vars

\* both adapters have answered false for an object that is not there, and the
\* S3 adapter has rethrown an error of HeadObject
AdapterFileExistsWitness ==
    /\ \E r \in Requests :
         LET q == req[r]
         IN  /\ q.op = "fileExists" /\ q.pc = "done"
             /\ q.provider # 0
             /\ instances[q.provider].kind = "s3"
             /\ q.checked \in {"absent", "deleted"}
             /\ q.adapter = Returned(FALSE)
    /\ \E r \in Requests :
         LET q == req[r]
         IN  /\ q.op = "fileExists" /\ q.pc = "done"
             /\ q.provider # 0
             /\ instances[q.provider].kind = "azure"
             /\ q.checked \in {"absent", "deleted"}
             /\ q.adapter = Returned(FALSE)


-----------------------------------------------------------------------------
(* Uploads without a container name or an object name *)

BackendCalls ==
    {"ContainerExists", "ContainerCreate", "SetAccessPolicy",
     "ContainerGetProperties", "BlobUpload", "HeadBucket", "PutObject"}

\* C30: an upload whose container name or object name is empty waits on no
\* backend call, creates no container, writes no object, and ends in an error.
EmptyNamesRejected ==
    \A r \in Requests :
        LET q == req[r]
        IN  (q.op = "uploadFile" /\ (q.bucketName = <<>> \/ q.fileName = <<>>))
                => /\ q.pc \notin BackendCalls
                   /\ ~q.created
                   /\ ~q.wrote
                   /\ (q.pc = "done" => q.result.status = "threw")


====
